---- MODULE Spec2Model ----
(***************************************************************************)
(* Funko record store over TCP (ejercicio-1): the line framing of the      *)
(* server's data handler, the dispatcher procesarPeticion and the storage  *)
(* manager GestorFunko, with every filesystem call of a request chain as   *)
(* one step of the event loop.                                             *)
(***************************************************************************)
EXTENDS Integers, Sequences, FiniteSets, TLC

\* ------------------------------------------------------------------ bounds
\* record identifiers used by the requests: 1..MaxId
MaxId == 2
\* request chains that may be in flight at the same time
MaxEnVuelo == 2
\* connections open on the server
NumCon == 2
\* lines the server receives in one run of Spec
MaxPeticiones == 2
\* lines the server receives in one run of SpecSec, one after the other
MaxSecuencia == 3
\* calls made to GestorFunko in one run of SpecGestor
MaxLlamadas == 3
\* data events in one run of SpecTrama
MaxTrozos == 2
\* longest chunk of one data event, in symbols (SpecTrama)
MaxTrozo == 3
\* lines the server receives in one run of SpecCarga
MaxCargas == 2
\* calls of cargarFunkosUsuario in one run of SpecFallos
MaxFallos == 2
\* lines the server receives in one run of SpecCampos
MaxCampos == 2
\* data events in one run of SpecOrden
MaxOrden == 2
\* data events of the client's socket in one run of SpecCliente
MaxDatos == 2
\* lines the server receives in one run of SpecConexion
MaxCiclos == 2
\* lines the server receives in one run of SpecAtasco
MaxAtasco == 2
MaxBorrar == 3
MaxChat == 5
MaxClientes == 3
MaxRespuesta == 2
MaxCarrera == 3
MaxSolape == 3
MaxAislamiento == 2
MaxLectura == 2
MaxTipo == 2
MaxCorte == 2
MaxCortes == 3

\* ------------------------------------------------------- optional values
\* A field that may be absent (undefined in the source) is a sequence of
\* length 0 or 1.
None == <<>>
Some(x) == <<x>>

\* ---------------------------------------------------------- JS numbers
\* The number Infinity (what JSON.parse yields for 1e999) and the value null
\* are encoded as integers outside the range the requests use.
Infinito == 1000
Nulo == -1

\* --------------------------------------------------------- record model
Ids == 1..MaxId
Usuarios == {"ana"}

\* interface Funko: ten fields.
Funko(id, valorMercado) ==
    [id |-> id, nombre |-> "n", descripcion |-> "d", tipo |-> "Pop!",
     genero |-> "Deportes", franquicia |-> "f", numero |-> 1,
     exclusivo |-> FALSE, caracteristicasEspeciales |-> "c",
     valorMercado |-> valorMercado]

\* The value NaN of a number (a command-line value that is no number).
NoNumero == 2000

\* valorMercado <= 0: false for NaN.
valorAlMenosCero(valorMercado) == valorMercado # NoNumero /\ valorMercado < 0
valorNoPositivo(valorMercado) == valorMercado # NoNumero /\ valorMercado <= 0

\* crearFunko: undefined (None), or the record of the ten arguments.
crearFunko(id, nombre, descripcion, tipo, genero, franquicia, numero, exclusivo, caracteristicasEspeciales, valorMercado) ==
    IF valorNoPositivo(valorMercado) THEN None
    ELSE Some([id |-> id, nombre |-> nombre, descripcion |-> descripcion,
               tipo |-> tipo, genero |-> genero, franquicia |-> franquicia,
               numero |-> numero, exclusivo |-> exclusivo,
               caracteristicasEspeciales |-> caracteristicasEspeciales,
               valorMercado |-> valorMercado])

\* ------------------------------------------------------------ JSON text
\* The text of a record file is the tuple of the texts of its ten fields.
\* JSON.stringify writes null for a number that is not finite.
NumeroJSON(n) == IF n = Infinito THEN Nulo ELSE n

JSONstringify(f) ==
    <<NumeroJSON(f.id), f.nombre, f.descripcion, f.tipo, f.genero, f.franquicia,
      NumeroJSON(f.numero), f.exclusivo, f.caracteristicasEspeciales,
      NumeroJSON(f.valorMercado)>>

\* An empty file (opened for writing, not written yet) and a file holding the
\* bytes of two interleaved writes: JSON.parse throws on both.
Vacio == <<>>
Mezcla == <<"mezcla">>

\* A variant of the decoding that never throws: a text that is no record
\* yields a record of nulls.
JSONparseSinThrow(txt) ==
    [ok |-> TRUE,
     val |-> IF Len(txt) = 10
             THEN [id |-> txt[1], nombre |-> txt[2], descripcion |-> txt[3],
                   tipo |-> txt[4], genero |-> txt[5], franquicia |-> txt[6],
                   numero |-> txt[7], exclusivo |-> txt[8],
                   caracteristicasEspeciales |-> txt[9], valorMercado |-> txt[10]]
             ELSE Funko(Nulo, Nulo)]

\* JSON.parse of a file's text: ok = FALSE when it throws.
JSONparse(txt) ==
    IF Len(txt) = 10
    THEN [ok |-> TRUE,
          val |-> [id |-> txt[1], nombre |-> txt[2], descripcion |-> txt[3],
                   tipo |-> txt[4], genero |-> txt[5], franquicia |-> txt[6],
                   numero |-> txt[7], exclusivo |-> txt[8],
                   caracteristicasEspeciales |-> txt[9], valorMercado |-> txt[10]]]
    ELSE [ok |-> FALSE, val |-> Funko(Nulo, Nulo)]

\* ------------------------------------------------------------- requests
\* TipoPeticion as it arrives: any field may be absent; nulo marks the JSON
\* value null.
Peticion(tipo, usuario, funko, id) ==
    [nulo |-> FALSE, tipo |-> tipo, usuario |-> usuario, funko |-> funko, id |-> id]

JSONnull == [nulo |-> TRUE, tipo |-> None, usuario |-> None, funko |-> None, id |-> None]

\* ------------------------------------------------------------ wire text
\* A text on the wire is a sequence of symbols: the line feed, a character
\* that belongs to no JSON value, the JSON text of a value, and the first
\* and the second half of that text (a message cut inside arrives as its two
\* halves).
LF == [k |-> "lf", v |-> JSONnull]
Basura == [k |-> "x", v |-> JSONnull]
Entera(v) == [k |-> "e", v |-> v]
Mitad1(v) == [k |-> "h", v |-> v]
Mitad2(v) == [k |-> "t", v |-> v]

\* JSON.stringify(peticion) + "\n"  (cliente.ts, enviarPeticion)
Linea(v) == <<Entera(v), LF>>

\* JSON.parse(mensajeStr): a line decodes iff it is the whole text of one
\* value.
JSONparseLinea(s) ==
    IF Len(s) = 1 /\ s[1].k = "e"
    THEN [ok |-> TRUE, val |-> s[1].v]
    ELSE IF Len(s) = 2 /\ s[1].k = "h" /\ s[2].k = "t" /\ s[1].v = s[2].v
    THEN [ok |-> TRUE, val |-> s[1].v]
    ELSE [ok |-> FALSE, val |-> JSONnull]

\* A variant of the search that finds the last line feed (lastIndexOf).
indexOfUltimo(s, i) ==
    LET P == {k \in i..Len(s) : s[k] = LF}
    IN  IF P = {} THEN 0 ELSE CHOOSE k \in P : \A m \in P : m <= k

\* A variant of the search that starts after the first character.
indexOfDesdeDos(s, i) ==
    LET P == {k \in (i + 1)..Len(s) : s[k] = LF}
    IN  IF P = {} THEN 0 ELSE CHOOSE k \in P : \A m \in P : k <= m

\* buffer.indexOf("\n"): 0 when there is none (the source's -1).
RECURSIVE indexOf(_, _)
indexOf(s, i) ==
    IF i > Len(s) THEN 0
    ELSE IF s[i] = LF THEN i ELSE indexOf(s, i + 1)

\* ------------------------------------------------------------ responses
MsgParseo == "Error al parsear JSON de la peticion."
MsgSinFunko == "No se recibio Funko para anadir."
MsgErrorLeyendo == "Error leyendo Funkos del usuario."
MsgYaExiste == "El Funko ya existe."
MsgAnadido == "Funko anadido."
MsgNoGuardado == "No se pudo guardar el Funko."
MsgIncompleto == "Datos incompletos para actualizar Funko."
MsgNoExiste == "No existe Funko."
MsgActualizado == "Funko actualizado."
MsgNoActualizado == "No se pudo actualizar el Funko."
MsgSinIdEliminar == "No se especifico ID para eliminar."
MsgEliminado == "Funko eliminado."
MsgNoEliminado == "No se pudo eliminar (o no existe) Funko."
MsgListados == "Funkos listados."
MsgSinIdLeer == "No se especifico ID para leer."
MsgNoEncontrado == "No se encontro Funko."
MsgEncontrado == "Funko encontrado."
MsgNoSoportada == "Operacion no soportada."

\* A variant of the response whose tipo is fixed, whatever the request's.
RespuestaTipoFijo(tipo, exito, mensaje, funkos) ==
    [tipo |-> <<"list">>, exito |-> exito, mensaje |-> mensaje, funkos |-> funkos]

\* TipoRespuesta; funkos is absent (None) or Some(list).
Respuesta(tipo, exito, mensaje, funkos) ==
    [tipo |-> tipo, exito |-> exito, mensaje |-> mensaje, funkos |-> funkos]

\* A variant of the catch block's response that echoes no tipo.
respuestaSinTipo == Respuesta(None, FALSE, MsgParseo, None)

\* the response the data handler's catch block writes
respuestaError == Respuesta(Some("list"), FALSE, MsgParseo, None)

\* ---------------------------------------------------------------- state
Con == 1..NumCon
Tareas == 1..MaxEnVuelo

VARIABLES
    vivo,        \* the server process runs (no uncaught exception so far)
    dirs,        \* the user directories that exist under datos/
    fich,        \* fich[u]: the record files of u's directory, by file name
    buffer,      \* buffer[c]: the text connection c holds (let buffer = "")
    tareas,      \* the request chains in flight, one per slot
    ultimo,      \* ultimo[u]: the last answered request of u, when it ran alone
    borrados,    \* borrados[u]: ids removed with success and not added since
    salida,      \* what the last step wrote to the sockets, in order
    despachado,  \* the requests the last step handed to procesarPeticion
    entrada,     \* the connection and the text (buffer + chunk) of the last data event
    recibidas,   \* the data events (or direct calls) so far
    abiertas,    \* the connections neither side has ended
    historia,    \* history variable, kept in SpecOrden only (None elsewhere):
                 \* per connection the text received, the requests dispatched
                 \* and the requests answered, each in order
    cliente,     \* one run of enviarPeticion of the client program
    chat,        \* the chat server (servidor-chat.ts)
    crear        \* one call of crearFunko: its arguments and its result

vars == <<vivo, dirs, fich, buffer, tareas, ultimo, borrados, salida, despachado,
          entrada, recibidas, abiertas, historia, cliente, chat, crear>>

\* The Funko server's variables, and those of the other two programs.
servidor == <<vivo, dirs, fich, buffer, tareas, ultimo, borrados, salida, despachado,
              entrada, recibidas, abiertas, historia>>
ajenos == <<cliente, chat, crear>>

\* No call of crearFunko.
CrearInicial == [args |-> None, llamada |-> FALSE, res |-> None]

\* enviarPeticion has called connect: nothing written, nothing received.
ClienteInicial ==
    [fase |-> "conectando", buffer |-> <<>>, escritas |-> 0, vistas |-> <<>>,
     ends |-> 0, datos |-> 0]

\* The chat server listens: no client yet, contadorClientes = 1.
ChatInicial ==
    [clientes |-> <<>>, contadorClientes |-> 1, buffer |-> <<>>, escritos |-> <<>>,
     evento |-> [tipo |-> "listen", de |-> 0, datos |-> <<>>], eventos |-> 0]

\* The history of a connection on which nothing happened yet.
HistoriaVacia == Some([c \in Con |-> [rec |-> <<>>, desp |-> <<>>, resp |-> <<>>]])

\* The history after connection c received data, dispatched desp and wrote
\* the responses to resp.
Anotada(h, c, data, desp, resp) ==
    IF h = None \/ c \notin Con THEN h
    ELSE Some([h[1] EXCEPT ![c] = [rec |-> @.rec \o data, desp |-> @.desp \o desp,
                                   resp |-> @.resp \o resp]])

\* A slot of the event loop: the request, the GestorFunko call it is in (op),
\* the filesystem call it waits for (pc), and the locals of
\* cargarFunkosUsuario. prev, solo, tras and antes are history variables.
TareaLibre ==
    [pc |-> "libre", con |-> 0, pet |-> JSONnull, op |-> "", archivos |-> <<>>,
     pend |-> {}, contador |-> 0, lista |-> <<>>,
     prev |-> None, solo |-> FALSE, tras |-> FALSE, antes |-> None]

\* One write to a socket (con = 0: the callback of a direct call), with the
\* request it answers and that request's history variables.
Escrito(c, pet, resp, prev, tras, antes) ==
    [con |-> c, pet |-> pet, resp |-> resp, prev |-> prev, tras |-> tras,
     antes |-> antes]

EnVueloDe(tar, usuario) ==
    {t \in Tareas : tar[t].pc # "libre" /\ tar[t].pet.usuario = usuario}

EsAddDe(pet, id) ==
    pet.tipo = Some("add") /\ pet.funko # None /\ Some(pet.funko[1].id) = id

\* ------------------------------------------------------------- directory
Poner(f, n, e) == [m \in (DOMAIN f) \cup {n} |-> IF m = n THEN e ELSE f[m]]
\* A variant that removes every entry up to the given one.
QuitarHasta(f, n) == [m \in (DOMAIN f) \ (1..n) |-> f[m]]
Quitar(f, n) == [m \in (DOMAIN f) \ {n} |-> f[m]]
SinFicheros == [m \in {} |-> 0]

RECURSIVE Ordenados(_)
Ordenados(S) ==
    IF S = {} THEN <<>>
    ELSE LET m == CHOOSE x \in S : \A y \in S : x <= y
         IN <<m>> \o Ordenados(S \ {m})

\* path.join(process.cwd(), "datos", usuario): throws a TypeError when
\* usuario is not a string.
pathJoin(usuario) ==
    [lanza |-> usuario = None, ruta |-> IF usuario = None THEN "" ELSE usuario[1]]

\* A variant of the file name taken from another numeric field.
nombrePorValor(funko) == funko.valorMercado

\* `${funko.id}.json`: the name of the file guardarFunko writes.
nombreFicheroDe(funko) == funko.id

\* A variant of the open with flag "wx": it fails on a file that exists.
abreConWX(existe) == ~existe

\* fs.writeFile opens with flag "w": it succeeds on a file that exists.
abreConW(existe) == TRUE

\* An id is whatever JSON value the request carries. The numbers above Trepa
\* stand for the texts "../bob/1", "../bob/2", ...: Trepa + k is the text
\* "../bob/k", the relative path of record k of the user OtroUsuario.
OtroUsuario == "bob"
Trepa == 5000
esRutaAjena(id) == \E k \in Ids : id = Trepa + k

\* path.join(rutaUsuario, `${id}.json`): the joined path is normalised, so
\* the ".." of a path-like id leaves the user's directory.
pathJoinFichero(rutaUsuario, id) ==
    IF esRutaAjena(id) THEN [dir |-> OtroUsuario, nombre |-> id - Trepa]
    ELSE [dir |-> rutaUsuario, nombre |-> id]

\* A variant of the membership test that finds nothing.
existeIdNunca(lista, id) == FALSE

\* lista.some((f) => f.id === id)
existeId(lista, id) == \E i \in 1..Len(lista) : lista[i].id = id

\* A variant of the search that takes the first record of the list.
findIdPrimero(lista, id) == IF Len(lista) = 0 THEN 0 ELSE 1

\* lista.find((f) => f.id === id): the position of the first match, or 0.
findId(lista, id) ==
    IF existeId(lista, id)
    THEN CHOOSE i \in 1..Len(lista) :
            lista[i].id = id /\ \A j \in 1..(i - 1) : lista[j].id # id
    ELSE 0

\* ------------------------------------------------------------ dispatcher
\* A variant of the check of funko that lets every request through.
sinFunkoNunca(pet) == FALSE

\* !funko
sinFunko(pet) == pet.funko = None

\* id === undefined
sinId(pet) == pet.id = None

\* procesarPeticion up to its first storage call: it throws (lanza), answers
\* at once (sync) or starts the GestorFunko call op.
\* A variant of the default case that reports success.
respuestaSoportada(tipo) == Respuesta(tipo, TRUE, MsgNoSoportada, None)

\* default: callback({ tipo, exito: false, mensaje: "Operación no soportada." })
respuestaNoSoportada(tipo) == Respuesta(tipo, FALSE, MsgNoSoportada, None)

procesarPeticion(pet) ==
    LET tipo == pet.tipo
        falla(m) == [lanza |-> FALSE, sync |-> TRUE, op |-> "",
                     resp |-> Respuesta(tipo, FALSE, m, None)]
        llama(op) == [lanza |-> pathJoin(pet.usuario).lanza, sync |-> FALSE,
                      op |-> op, resp |-> Respuesta(tipo, FALSE, "", None)]
    IN  IF pet.nulo
        THEN [lanza |-> TRUE, sync |-> FALSE, op |-> "",
              resp |-> Respuesta(None, FALSE, "", None)]
        ELSE CASE tipo = Some("add") ->
                    IF sinFunko(pet) THEN falla(MsgSinFunko) ELSE llama("cargar")
               [] tipo = Some("update") ->
                    IF sinFunko(pet) \/ sinId(pet)
                    THEN falla(MsgIncompleto) ELSE llama("cargar")
               [] tipo = Some("remove") ->
                    IF sinId(pet) THEN falla(MsgSinIdEliminar) ELSE llama("eliminar")
               [] tipo = Some("list") -> llama("cargar")
               [] tipo = Some("read") ->
                    IF sinId(pet) THEN falla(MsgSinIdLeer) ELSE llama("cargar")
               [] OTHER -> [lanza |-> FALSE, sync |-> TRUE, op |-> "",
                            resp |-> respuestaNoSoportada(tipo)]

\* History: a request naming a user ends the solitude of that user's chains
\* in flight and of the user's last answered request; an add of id i ends
\* "removed and not added since" for i.
Anotar(st, pet) ==
    IF pet.usuario = None THEN st
    ELSE LET u == pet.usuario[1]
         IN [st EXCEPT
               !.tar = [t \in Tareas |->
                          IF st.tar[t].pc # "libre" /\ st.tar[t].pet.usuario = pet.usuario
                          THEN [st.tar[t] EXCEPT
                                  !.solo = FALSE, !.prev = None,
                                  !.tras = IF EsAddDe(pet, st.tar[t].pet.id)
                                           THEN FALSE ELSE @]
                          ELSE st.tar[t]],
               !.ult = [@ EXCEPT ![u] = None],
               !.bor = [@ EXCEPT ![u] =
                          IF pet.tipo = Some("add") /\ pet.funko # None
                          THEN @ \ {pet.funko[1].id} ELSE @]]

\* The chain of a request starts: its first call is obtenerDirectorioUsuario's
\* fs.access.
Arrancar(c, st, pet, op) ==
    LET libres == {t \in Tareas : st.tar[t].pc = "libre"}
        u == pet.usuario[1]
        sola == EnVueloDe(st.tar, pet.usuario) = {}
        nueva == [TareaLibre EXCEPT
                    !.pc = "access", !.con = c, !.pet = pet, !.op = op,
                    !.solo = sola,
                    !.prev = IF sola THEN st.ult[u] ELSE None,
                    !.tras = pet.tipo = Some("read") /\ pet.id[1] \in st.bor[u]]
    IN  IF libres = {} THEN [st EXCEPT !.lleno = TRUE]
        ELSE LET t == CHOOSE x \in libres : \A y \in libres : x <= y
                 g == Anotar(st, pet)
             IN [g EXCEPT !.tar = [@ EXCEPT ![t] = nueva]]

Despachar(c, st, pet) ==
    LET d == procesarPeticion(pet)
        st1 == [st EXCEPT !.desp = Append(@, pet)]
    IN  IF d.lanza THEN [st1 EXCEPT !.caido = TRUE]
        ELSE IF d.sync
        THEN [Anotar(st1, pet) EXCEPT
                !.sal = Append(@, Escrito(c, Some(pet), d.resp, None, FALSE, None))]
        ELSE Arrancar(c, st1, pet, d.op)

\* A variant of the catch block that drops the rest of the buffer.
ramaCatchVacia(c, st, resto) ==
    [st EXCEPT !.buf = <<>>,
               !.sal = Append(@, Escrito(c, None, respuestaError, None, FALSE, None))]

\* The catch block of the data handler: one failure response, and the loop
\* goes on with the text after the line.
ramaCatch(c, st, resto) ==
    [st EXCEPT !.buf = resto,
               !.sal = Append(@, Escrito(c, None, respuestaError, None, FALSE, None))]

\* The while loop of the data handler over the buffer (servidor.ts 49-83).
RECURSIVE Procesar(_, _)
Procesar(c, st) ==
    LET index == indexOf(st.buf, 1)
    IN  IF index = 0 \/ st.caido \/ st.lleno THEN st
        ELSE LET mensajeStr == SubSeq(st.buf, 1, index - 1)
                 resto == SubSeq(st.buf, index + 1, Len(st.buf))
                 p == JSONparseLinea(mensajeStr)
             IN IF ~p.ok
                THEN Procesar(c, ramaCatch(c, st, resto))
                ELSE Procesar(c, Despachar(c, [st EXCEPT !.buf = resto], p.val))

\* A variant of the accumulation that puts the chunk before the text held.
acumularDelante(buf, data) == data \o buf

\* A variant of the accumulation that keeps the chunk alone (buffer = data).
acumularSoloTrozo(buf, data) == data

\* buffer += data
acumular(buf, data) == buf \o data

\* socket.on("data"): the whole handler, up to the first await of every
\* request it dispatches. An exception thrown inside it is caught by
\* nobody: the process ends.
onData(c, data) ==
    LET r == Procesar(c, [buf |-> acumular(buffer[c], data), sal |-> <<>>, desp |-> <<>>,
                          tar |-> tareas, ult |-> ultimo, bor |-> borrados,
                          caido |-> FALSE, lleno |-> FALSE])
    IN  /\ vivo
        /\ c \in abiertas
        /\ ~r.lleno
        /\ buffer' = [buffer EXCEPT ![c] = r.buf]
        /\ salida' = r.sal
        /\ despachado' = r.desp
        /\ tareas' = r.tar
        /\ ultimo' = r.ult
        /\ borrados' = r.bor
        /\ vivo' = ~r.caido
        /\ entrada' = <<[con |-> c, texto |-> buffer[c] \o data]>>
        /\ recibidas' = recibidas + 1
        /\ abiertas' = IF r.caido THEN {} ELSE abiertas
        /\ historia' = Anotada(historia, c, data, r.desp,
                               [k \in 1..Len(r.sal) |-> r.sal[k].pet])
        /\ UNCHANGED <<dirs, fich>>
        /\ UNCHANGED ajenos

\* ------------------------------------------------- callbacks of a chain
\* A step that writes nothing to a socket leaves task t as nueva.
Queda(t, nueva) ==
    /\ tareas' = [tareas EXCEPT ![t] = nueva]
    /\ salida' = <<>>
    /\ despachado' = <<>>
    /\ entrada' = <<>>
    /\ UNCHANGED <<ultimo, borrados, abiertas, historia>>
    /\ UNCHANGED ajenos

\* A variant of the callback that writes no response while another request
\* of the same connection is in flight.
FinEnOrden(t, ta, resp) ==
    LET espera == \E x \in Tareas \ {t} : tareas[x].pc # "libre" /\ tareas[x].con = ta.con
    IN  /\ salida' = IF espera THEN <<>>
                     ELSE <<Escrito(ta.con, Some(ta.pet), resp, ta.prev, ta.tras, ta.antes)>>
        /\ historia' = IF espera THEN historia
                       ELSE Anotada(historia, ta.con, <<>>, <<>>, <<Some(ta.pet)>>)
        /\ tareas' = [tareas EXCEPT ![t] = TareaLibre]
        /\ despachado' = <<>>
        /\ entrada' = <<>>
        /\ UNCHANGED <<ultimo, borrados, abiertas>>
        /\ UNCHANGED ajenos

\* A variant of the callback that waits until no other chain is in flight.
FinConCerrojo(t, ta, resp) ==
    /\ \A x \in Tareas \ {t} : tareas[x].pc = "libre"
    /\ salida' = <<Escrito(ta.con, Some(ta.pet), resp, ta.prev, ta.tras, ta.antes)>>
    /\ tareas' = [tareas EXCEPT ![t] = TareaLibre]
    /\ despachado' = <<>>
    /\ entrada' = <<>>
    /\ UNCHANGED <<ultimo, borrados, abiertas, historia>>
    /\ UNCHANGED ajenos

\* The callback given to procesarPeticion: the response is written to the
\* socket of the request and the chain ends. ta is the task as the step
\* leaves it.
Fin(t, ta, resp) ==
    LET u == ta.pet.usuario[1]
        otroAdd == \E x \in Tareas \ {t} :
                      /\ tareas[x].pc # "libre"
                      /\ tareas[x].pet.usuario = ta.pet.usuario
                      /\ EsAddDe(tareas[x].pet, ta.pet.id)
        \* socket.write on a connection the peer has ended writes nothing:
        \* the error goes to the socket's "error" listener
        escribe == ta.con \notin Con \/ ta.con \in abiertas
    IN  /\ salida' = IF escribe
                     THEN <<Escrito(ta.con, Some(ta.pet), resp, ta.prev, ta.tras, ta.antes)>>
                     ELSE <<>>
        /\ historia' = IF escribe THEN Anotada(historia, ta.con, <<>>, <<>>, <<Some(ta.pet)>>)
                       ELSE historia
        /\ abiertas' = abiertas
        /\ UNCHANGED ajenos
        /\ tareas' = [tareas EXCEPT ![t] = TareaLibre]
        /\ ultimo' = [ultimo EXCEPT ![u] =
                         IF ta.solo THEN Some([pet |-> ta.pet, exito |-> resp.exito])
                         ELSE None]
        /\ borrados' = [borrados EXCEPT ![u] =
                           IF ta.pet.tipo = Some("remove") /\ resp.exito /\ ~otroAdd
                           THEN @ \cup {ta.pet.id[1]} ELSE @]
        /\ despachado' = <<>>
        /\ entrada' = <<>>

\* The chain goes on with guardarFunko (its obtenerDirectorioUsuario first).
Seguir(t, ta, op) ==
    Queda(t, [ta EXCEPT !.op = op, !.pc = "access", !.archivos = <<>>,
                        !.pend = {}, !.contador = 0, !.lista = <<>>])

\* guardarFunko's callback(ok) in procesarPeticion (add, update), or the
\* callback of a direct call.
alGuardar(t, ta, ok) ==
    LET tipo == ta.pet.tipo
    IN  CASE tipo = Some("add") ->
                Fin(t, ta, Respuesta(tipo, ok, IF ok THEN MsgAnadido ELSE MsgNoGuardado, None))
          [] tipo = Some("update") ->
                Fin(t, ta, Respuesta(tipo, ok,
                                     IF ok THEN MsgActualizado ELSE MsgNoActualizado, None))
          [] OTHER -> Fin(t, ta, Respuesta(tipo, ok, "", None))

\* eliminarFunko's callback(ok).
alEliminar(t, ta, ok) ==
    LET tipo == ta.pet.tipo
    IN  CASE tipo = Some("remove") ->
                Fin(t, ta, Respuesta(tipo, ok, IF ok THEN MsgEliminado ELSE MsgNoEliminado, None))
          [] OTHER -> Fin(t, ta, Respuesta(tipo, ok, "", None))

\* cargarFunkosUsuario's callback(lista) in procesarPeticion; ok = FALSE is
\* lista === undefined.
alCargar(t, ta, ok, lista) ==
    LET pet == ta.pet
        tipo == pet.tipo
        error == Fin(t, ta, Respuesta(tipo, FALSE, MsgErrorLeyendo, None))
    IN  CASE tipo = Some("add") ->
                IF ~ok THEN error
                ELSE IF existeId(lista, pet.funko[1].id)
                THEN Fin(t, ta, Respuesta(tipo, FALSE, MsgYaExiste, None))
                ELSE Seguir(t, ta, "guardar")
          [] tipo = Some("update") ->
                IF ~ok THEN error
                ELSE IF ~existeId(lista, pet.id[1])
                THEN Fin(t, ta, Respuesta(tipo, FALSE, MsgNoExiste, None))
                ELSE Seguir(t, ta, "guardar")
          [] tipo = Some("list") ->
                IF ~ok THEN error
                ELSE Fin(t, ta, Respuesta(tipo, TRUE, MsgListados, Some(lista)))
          [] tipo = Some("read") ->
                IF ~ok THEN error
                ELSE LET i == findId(lista, pet.id[1])
                     IN IF i = 0
                        THEN Fin(t, ta, Respuesta(tipo, FALSE, MsgNoEncontrado, None))
                        ELSE Fin(t, ta, Respuesta(tipo, TRUE, MsgEncontrado,
                                                  Some(<<lista[i]>>)))
          [] OTHER ->
                Fin(t, ta, Respuesta(tipo, ok, "", IF ok THEN Some(lista) ELSE None))

\* A variant in which the load of a read request goes on to fs.unlink of
\* the requested id instead of reading the directory.
alDirectorioLeerBorra(t, ta, hayRuta) ==
    CASE ta.op = "cargar" ->
            IF hayRuta
            THEN Queda(t, [ta EXCEPT !.pc = IF ta.pet.tipo = Some("read")
                                            THEN "unlink" ELSE "readdir"])
            ELSE alCargar(t, ta, FALSE, <<>>)
      [] ta.op = "guardar" ->
            IF hayRuta THEN Queda(t, [ta EXCEPT !.pc = "open"])
            ELSE alGuardar(t, ta, FALSE)
      [] OTHER ->
            IF hayRuta THEN Queda(t, [ta EXCEPT !.pc = "unlink"])
            ELSE alEliminar(t, ta, FALSE)

\* obtenerDirectorioUsuario's callback(rutaUsuario) in the three methods.
alDirectorio(t, ta, hayRuta) ==
    CASE ta.op = "cargar" ->
            IF hayRuta THEN Queda(t, [ta EXCEPT !.pc = "readdir"])
            ELSE alCargar(t, ta, FALSE, <<>>)
      [] ta.op = "guardar" ->
            IF hayRuta THEN Queda(t, [ta EXCEPT !.pc = "open"])
            ELSE alGuardar(t, ta, FALSE)
      [] OTHER ->
            IF hayRuta THEN Queda(t, [ta EXCEPT !.pc = "unlink"])
            ELSE alEliminar(t, ta, FALSE)

\* ------------------------------------------------- filesystem completions
Ruta(t) == pathJoin(tareas[t].pet.usuario).ruta

\* fs.access(ruta, F_OK) completes.
fsAccess(t) ==
    /\ vivo /\ tareas[t].pc = "access"
    /\ IF Ruta(t) \in dirs
       THEN alDirectorio(t, tareas[t], TRUE)
       ELSE Queda(t, [tareas[t] EXCEPT !.pc = "mkdir"])
    /\ UNCHANGED <<vivo, dirs, fich, buffer, recibidas>>

\* A variant of fs.mkdir without the recursive option: an error when the
\* directory exists.
errMkdirSiExiste(existe) == existe

\* fs.mkdir(ruta, {recursive: true}): no error when the directory exists by
\* now.
errMkdirDe(existe) == FALSE

\* fs.mkdir completes.
fsMkdir(t) ==
    /\ vivo /\ tareas[t].pc = "mkdir"
    /\ dirs' = dirs \cup {Ruta(t)}
    /\ alDirectorio(t, tareas[t], ~errMkdirDe(Ruta(t) \in dirs))
    /\ UNCHANGED <<vivo, fich, buffer, recibidas>>

\* The name of a directory entry is the id i of i.json, or NombreNotas: an
\* entry whose extension is not .json.
NombreNotas == 0

\* path.extname(rutaArchivo) === ".json"
esJson(n) == n # NombreNotas

\* A variant of the loop that does not count the entries it skips.
contadorSinSaltados(archivos) == 0

\* contador when the for loop has ended: one per entry that is no .json file
\* (the reads complete later).
contadorTrasBucle(archivos) ==
    Cardinality({k \in 1..Len(archivos) : ~esJson(archivos[k])})

\* A variant that puts the record in front of the list.
anadirDelante(lista, funko) == <<funko>> \o lista

\* listaFunkos[listaFunkos.length] = funko
anadir(lista, funko) == Append(lista, funko)

\* A variant that reports a directory without entries as an error.
sinArchivosFalla(t, ta) == alCargar(t, ta, FALSE, <<>>)

\* if (archivos.length === 0) callback(listaFunkos)
sinArchivos(t, ta) == alCargar(t, ta, TRUE, <<>>)

\* fs.readdir completes: the listing is taken, the entries that are no .json
\* files are counted at once and a readFile is started for every other one.
fsReaddir(t) ==
    LET archivos == Ordenados(DOMAIN fich[Ruta(t)])
        registros == {n \in DOMAIN fich[Ruta(t)] : esJson(n)}
        contador == contadorTrasBucle(archivos)
    IN  /\ vivo /\ tareas[t].pc = "readdir"
        /\ IF Len(archivos) = 0
           THEN sinArchivos(t, tareas[t])
           ELSE IF contador = Len(archivos)
           THEN alCargar(t, tareas[t], TRUE, <<>>)
           ELSE Queda(t, [tareas[t] EXCEPT !.pc = "readFile", !.archivos = archivos,
                                           !.pend = registros,
                                           !.contador = contador, !.lista = <<>>])
        /\ UNCHANGED <<vivo, dirs, fich, buffer, recibidas>>

\* A variant of the readFile callback in which a read error fails the load.
alLeerFalla(t, n, errRead) ==
    /\ IF errRead THEN alCargar(t, tareas[t], FALSE, <<>>)
       ELSE Queda(t, [tareas[t] EXCEPT !.pend = @ \ {n}, !.contador = @ + 1])
    /\ UNCHANGED <<vivo, dirs, fich, buffer, recibidas>>

\* The callback of the readFile of file n: contador++, the record appended
\* unless the read or the decoding failed, and the list delivered when every
\* entry is counted.
alLeer(t, n, errRead) ==
    LET ta == tareas[t]
        f == fich[Ruta(t)]
        p == IF errRead THEN JSONparse(Vacio) ELSE JSONparse(f[n].txt)
        listaFunkos == IF ~errRead /\ p.ok THEN anadir(ta.lista, p.val) ELSE ta.lista
        contador == ta.contador + 1
        tb == [ta EXCEPT !.pend = @ \ {n}, !.contador = contador,
                         !.lista = listaFunkos]
    IN  /\ vivo /\ ta.pc = "readFile"
        /\ IF contador = Len(ta.archivos)
           THEN alCargar(t, tb, TRUE, listaFunkos)
           ELSE Queda(t, tb)
        /\ UNCHANGED <<vivo, dirs, fich, buffer, recibidas>>

\* One fs.readFile of the fan-out completes, in any order: that of file n,
\* with an error when the file is there no more.
fsReadFile(t) ==
    \E n \in tareas[t].pend : alLeer(t, n, n \notin DOMAIN fich[Ruta(t)])

\* fs.writeFile, first half: the file is opened with flag "w", that is
\* created or truncated.
fsWriteFileOpen(t) ==
    LET ta == tareas[t]
        r == pathJoinFichero(Ruta(t), nombreFicheroDe(ta.pet.funko[1]))
        f == fich[r.dir]
        n == r.nombre
        existe == n \in DOMAIN f
        antes == IF existe /\ JSONparse(f[n].txt).ok
                 THEN Some([txt |-> f[n].txt, por |-> f[n].por]) ELSE None
        tb == [ta EXCEPT !.antes = antes]
    IN  /\ vivo /\ ta.pc = "open"
        /\ IF r.dir \in dirs /\ abreConW(existe)
           THEN /\ fich' = [fich EXCEPT ![r.dir] =
                              Poner(f, n, [txt |-> Vacio, por |-> "",
                                           abiertos |-> (IF existe THEN f[n].abiertos ELSE {})
                                                        \cup {t}])]
                /\ Queda(t, [tb EXCEPT !.pc = "write"])
           ELSE /\ fich' = fich
                /\ alGuardar(t, tb, FALSE)
        /\ UNCHANGED <<vivo, dirs, buffer, recibidas>>

\* fs.writeFile, second half: the text is written at offset 0 through the
\* descriptor opened before, and callback(true). A file unlinked meanwhile
\* is written without a name; on a file another writer has written since
\* this one opened it, the two texts may be left interleaved.
fsWriteFile(t) ==
    LET ta == tareas[t]
        r == pathJoinFichero(Ruta(t), nombreFicheroDe(ta.pet.funko[1]))
        f == fich[r.dir]
        n == r.nombre
        contenido == JSONstringify(ta.pet.funko[1])
        mio == n \in DOMAIN f /\ t \in f[n].abiertos
        textos == IF mio /\ f[n].txt \notin {Vacio, contenido}
                  THEN {contenido, Mezcla} ELSE {contenido}
    IN  /\ vivo /\ ta.pc = "write"
        /\ \E txt \in textos :
              fich' = IF mio
                      THEN [fich EXCEPT ![r.dir] =
                              Poner(f, n, [txt |-> txt, por |-> ta.pet.tipo[1],
                                           abiertos |-> f[n].abiertos \ {t}])]
                      ELSE fich
        /\ alGuardar(t, ta, TRUE)
        /\ UNCHANGED <<vivo, dirs, buffer, recibidas>>

\* A variant of fs.unlink that reports no error for a file that is not there.
errUnlinkNunca(f, n) == FALSE

\* fs.unlink(rutaFichero) fails when the directory has no such entry.
errUnlinkDe(f, n) == n \notin DOMAIN f

\* fs.unlink completes.
fsUnlink(t) ==
    LET ta == tareas[t]
        r == pathJoinFichero(Ruta(t), ta.pet.id[1])
        f == fich[r.dir]
        n == r.nombre
        errUnlink == errUnlinkDe(f, n)
    IN  /\ vivo /\ ta.pc = "unlink"
        /\ fich' = IF errUnlink THEN fich ELSE [fich EXCEPT ![r.dir] = Quitar(f, n)]
        /\ alEliminar(t, ta, ~errUnlink)
        /\ UNCHANGED <<vivo, dirs, buffer, recibidas>>

\* ------------------------------------------------------ the initial state
\* The values the requests carry as valorMercado.
Valores == {0, 5, 7}
ValorInicial == CHOOSE v \in Valores : v > 0 /\ \A w \in Valores : w > 0 => v <= w

\* The server starts on the datos/ directory earlier runs left: for every
\* user no directory, or a directory with some records, each in the file
\* named after its id.
FicheroInicial(i) ==
    [txt |-> JSONstringify(Funko(i, ValorInicial)), por |-> "inicial", abiertos |-> {}]

Init ==
    /\ vivo = TRUE
    /\ dirs \in SUBSET Usuarios
    /\ fich \in {f \in [Usuarios -> {[i \in S |-> FicheroInicial(i)] : S \in SUBSET Ids}] :
                    \A u \in Usuarios : u \notin dirs => f[u] = SinFicheros}
    /\ buffer = [c \in Con |-> <<>>]
    /\ tareas = [t \in Tareas |-> TareaLibre]
    /\ ultimo = [u \in Usuarios |-> None]
    /\ borrados = [u \in Usuarios |-> {}]
    /\ salida = <<>>
    /\ despachado = <<>>
    /\ entrada = <<>>
    /\ recibidas = 0
    /\ abiertas = Con
    /\ historia = None
    /\ cliente = ClienteInicial
    /\ chat = ChatInicial
    /\ crear = CrearInicial

\* ------------------------------------------------------ the server, Spec
FunkosSpec == {Funko(i, v) : i \in Ids, v \in Valores}

PeticionesSpec ==
    {Peticion(Some("add"), Some(u), Some(f), None) : u \in Usuarios, f \in FunkosSpec}
    \cup {Peticion(Some("update"), Some(u), Some(f), Some(i)) :
              u \in Usuarios, f \in FunkosSpec, i \in Ids}
    \cup {Peticion(Some(tp), Some(u), None, Some(i)) :
              tp \in {"remove", "read"}, u \in Usuarios, i \in Ids}
    \cup {Peticion(Some("list"), Some(u), None, None) : u \in Usuarios}
    \cup {Peticion(Some("add"), Some(u), None, None) : u \in Usuarios}
    \cup {Peticion(Some("list"), None, None, None), JSONnull}

\* One line arrives on connection c in one chunk: a request, or a line that
\* is no JSON text.
Recibir(c) ==
    /\ recibidas < MaxPeticiones
    /\ buffer[c] = <<>>
    /\ \/ \E pet \in PeticionesSpec : onData(c, Linea(pet))
       \/ onData(c, <<Basura, LF>>)

Next ==
    \/ \E c \in Con : Recibir(c)
    \/ \E t \in Tareas : fsAccess(t)
    \/ \E t \in Tareas : fsMkdir(t)
    \/ \E t \in Tareas : fsReaddir(t)
    \/ \E t \in Tareas : fsReadFile(t)
    \/ \E t \in Tareas : fsWriteFileOpen(t)
    \/ \E t \in Tareas : fsWriteFile(t)
    \/ \E t \in Tareas : fsUnlink(t)

Spec == Init /\ [][Next]_vars

\* ------------------------------------- one request after the other, SpecSec
\* The client of cliente.ts: the next line is sent when the chain of the one
\* before has ended.
RecibirSec(c) ==
    /\ recibidas < MaxSecuencia
    /\ \A t \in Tareas : tareas[t].pc = "libre"
    /\ buffer[c] = <<>>
    /\ \/ \E pet \in PeticionesSpec : onData(c, Linea(pet))
       \/ onData(c, <<Basura, LF>>)

NextSec ==
    \/ \E c \in Con : RecibirSec(c)
    \/ \E t \in Tareas : fsAccess(t)
    \/ \E t \in Tareas : fsMkdir(t)
    \/ \E t \in Tareas : fsReaddir(t)
    \/ \E t \in Tareas : fsReadFile(t)
    \/ \E t \in Tareas : fsWriteFileOpen(t)
    \/ \E t \in Tareas : fsWriteFile(t)
    \/ \E t \in Tareas : fsUnlink(t)

SpecSec == Init /\ [][NextSec]_vars

\* -------------------------------------- GestorFunko called directly, SpecGestor
\* The records the calls carry: any number is a valorMercado, Infinity too.
ValoresGestor == {ValorInicial, Infinito}
FunkosGestor == {Funko(i, v) : i \in Ids, v \in ValoresGestor}

\* The calls, as requests whose tipo names the method.
LlamadasGestor ==
    {Peticion(Some("guardar"), Some(u), Some(f), None) : u \in Usuarios, f \in FunkosGestor}
    \cup {Peticion(Some("cargar"), Some(u), None, None) : u \in Usuarios}
    \cup {Peticion(Some("eliminar"), Some(u), None, Some(i)) : u \in Usuarios, i \in Ids}

\* gestor.guardarFunko / cargarFunkosUsuario / eliminarFunko is called: the
\* method runs up to its fs.access.
Llamar(pet) ==
    LET r == Arrancar(0, [buf |-> <<>>, sal |-> <<>>, desp |-> <<>>,
                          tar |-> tareas, ult |-> ultimo, bor |-> borrados,
                          caido |-> FALSE, lleno |-> FALSE], pet, pet.tipo[1])
    IN  /\ vivo
        /\ recibidas < MaxLlamadas
        /\ ~r.lleno
        /\ tareas' = r.tar
        /\ ultimo' = r.ult
        /\ borrados' = r.bor
        /\ salida' = <<>>
        /\ despachado' = <<>>
        /\ entrada' = <<>>
        /\ recibidas' = recibidas + 1
        /\ UNCHANGED <<vivo, dirs, fich, buffer, abiertas, historia>>
        /\ UNCHANGED ajenos

NextGestor ==
    \/ \E pet \in LlamadasGestor : Llamar(pet)
    \/ \E t \in Tareas : fsAccess(t)
    \/ \E t \in Tareas : fsMkdir(t)
    \/ \E t \in Tareas : fsReaddir(t)
    \/ \E t \in Tareas : fsReadFile(t)
    \/ \E t \in Tareas : fsWriteFileOpen(t)
    \/ \E t \in Tareas : fsWriteFile(t)
    \/ \E t \in Tareas : fsUnlink(t)

SpecGestor == Init /\ [][NextGestor]_vars

\* ----------------------------------------- the data handler, SpecTrama
\* The requests whose text the chunks carry: one answered by the dispatcher
\* itself, one that goes to the storage; the second also arrives cut in two.
PeticionesTrama ==
    {Peticion(Some("add"), Some(u), None, None) : u \in Usuarios}
    \cup {Peticion(Some("list"), Some(u), None, None) : u \in Usuarios}
PartidasTrama ==
    {Peticion(Some("list"), Some(u), None, None) : u \in Usuarios}

SimbolosTrama ==
    {LF} \cup {Entera(p) : p \in PeticionesTrama}
         \cup {Mitad1(p) : p \in PartidasTrama}
         \cup {Mitad2(p) : p \in PartidasTrama}

\* the chunks a data event may deliver: any text of 1..MaxTrozo symbols, and
\* two whole messages back to back
Trozos ==
    UNION {[1..n -> SimbolosTrama] : n \in 1..MaxTrozo}
    \cup {Linea(p) \o Linea(q) : p, q \in PeticionesTrama}

\* A data event on connection c with any chunk.
RecibirTrozo(c) ==
    /\ recibidas < MaxTrozos
    /\ \E d \in Trozos : onData(c, d)

NextTrama ==
    \/ \E c \in Con : RecibirTrozo(c)
    \/ \E t \in Tareas : fsAccess(t)
    \/ \E t \in Tareas : fsMkdir(t)
    \/ \E t \in Tareas : fsReaddir(t)
    \/ \E t \in Tareas : fsReadFile(t)

SpecTrama == Init /\ [][NextTrama]_vars

\* ------------------------------------- listing a directory, SpecCarga
\* A directory as earlier runs, or a user's hand, left it: besides valid
\* records, record files whose text is no JSON and an entry that is no .json
\* file.
FicheroCorrupto == [txt |-> Mezcla, por |-> "inicial", abiertos |-> {}]

DirectoriosCarga ==
    UNION {{f \in [S -> {FicheroCorrupto} \cup {FicheroInicial(i) : i \in Ids}] :
               \A n \in S : f[n] = FicheroCorrupto \/ (n \in Ids /\ f[n] = FicheroInicial(n))} :
           S \in SUBSET (Ids \cup {NombreNotas})}

InitCarga ==
    /\ vivo = TRUE
    /\ dirs \in SUBSET Usuarios
    /\ fich \in {f \in [Usuarios -> DirectoriosCarga] :
                    \A u \in Usuarios : u \notin dirs => f[u] = SinFicheros}
    /\ buffer = [c \in Con |-> <<>>]
    /\ tareas = [t \in Tareas |-> TareaLibre]
    /\ ultimo = [u \in Usuarios |-> None]
    /\ borrados = [u \in Usuarios |-> {}]
    /\ salida = <<>>
    /\ despachado = <<>>
    /\ entrada = <<>>
    /\ recibidas = 0
    /\ abiertas = Con
    /\ historia = None
    /\ cliente = ClienteInicial
    /\ chat = ChatInicial
    /\ crear = CrearInicial

\* The requests that only load the records.
PeticionesCarga ==
    {Peticion(Some("list"), Some(u), None, None) : u \in Usuarios}
    \cup {Peticion(Some("read"), Some(u), None, Some(i)) : u \in Usuarios, i \in Ids}

RecibirCarga(c) ==
    /\ recibidas < MaxCargas
    /\ buffer[c] = <<>>
    /\ \E pet \in PeticionesCarga : onData(c, Linea(pet))

NextCarga ==
    \/ \E c \in Con : RecibirCarga(c)
    \/ \E t \in Tareas : fsAccess(t)
    \/ \E t \in Tareas : fsMkdir(t)
    \/ \E t \in Tareas : fsReaddir(t)
    \/ \E t \in Tareas : fsReadFile(t)

SpecCarga == InitCarga /\ [][NextCarga]_vars

\* --------------------------- cargarFunkosUsuario under fs errors, SpecFallos
\* fs.mkdir fails (errMkdir): obtenerDirectorioUsuario delivers undefined.
fsMkdirError(t) ==
    /\ vivo /\ tareas[t].pc = "mkdir"
    /\ alDirectorio(t, tareas[t], FALSE)
    /\ UNCHANGED <<vivo, dirs, fich, buffer, recibidas>>

\* fs.readdir fails (errReaddir).
fsReaddirError(t) ==
    /\ vivo /\ tareas[t].pc = "readdir"
    /\ alCargar(t, tareas[t], FALSE, <<>>)
    /\ UNCHANGED <<vivo, dirs, fich, buffer, recibidas>>

\* fs.readFile of one entry fails (errRead).
fsReadFileError(t) ==
    /\ vivo /\ tareas[t].pc = "readFile"
    /\ \E n \in tareas[t].pend : alLeer(t, n, TRUE)

LlamadasCargar == {Peticion(Some("cargar"), Some(u), None, None) : u \in Usuarios}

\* gestor.cargarFunkosUsuario is called.
LlamarCargar(pet) ==
    LET r == Arrancar(0, [buf |-> <<>>, sal |-> <<>>, desp |-> <<>>,
                          tar |-> tareas, ult |-> ultimo, bor |-> borrados,
                          caido |-> FALSE, lleno |-> FALSE], pet, pet.tipo[1])
    IN  /\ vivo
        /\ recibidas < MaxFallos
        /\ ~r.lleno
        /\ tareas' = r.tar
        /\ ultimo' = r.ult
        /\ borrados' = r.bor
        /\ salida' = <<>>
        /\ despachado' = <<>>
        /\ entrada' = <<>>
        /\ recibidas' = recibidas + 1
        /\ UNCHANGED <<vivo, dirs, fich, buffer, abiertas, historia>>
        /\ UNCHANGED ajenos

NextFallos ==
    \/ \E pet \in LlamadasCargar : LlamarCargar(pet)
    \/ \E t \in Tareas : fsAccess(t)
    \/ \E t \in Tareas : fsMkdir(t)
    \/ \E t \in Tareas : fsMkdirError(t)
    \/ \E t \in Tareas : fsReaddir(t)
    \/ \E t \in Tareas : fsReaddirError(t)
    \/ \E t \in Tareas : fsReadFile(t)
    \/ \E t \in Tareas : fsReadFileError(t)

SpecFallos == InitCarga /\ [][NextFallos]_vars

\* ------------------------------- requests that lack a field, SpecCampos
\* The requests without a field their kind requires; with them the server
\* receives complete requests of every kind, a request of a kind the
\* dispatcher does not know and one without tipo.
PeticionesIncompletas ==
    {Peticion(Some("add"), Some(u), None, None) : u \in Usuarios}
    \cup {Peticion(Some("update"), Some(u), None, Some(i)) : u \in Usuarios, i \in Ids}
    \cup {Peticion(Some("update"), Some(u), Some(Funko(i, ValorInicial)), None) :
              u \in Usuarios, i \in Ids}
    \cup {Peticion(Some("update"), Some(u), None, None) : u \in Usuarios}
    \cup {Peticion(Some(tp), Some(u), None, None) :
              tp \in {"remove", "read"}, u \in Usuarios}

PeticionesCampos ==
    PeticionesIncompletas
    \cup {Peticion(Some("add"), Some(u), Some(Funko(i, ValorInicial)), None) :
              u \in Usuarios, i \in Ids}
    \cup {Peticion(Some("update"), Some(u), Some(Funko(i, ValorInicial)), Some(i)) :
              u \in Usuarios, i \in Ids}
    \cup {Peticion(Some(tp), Some(u), None, Some(i)) :
              tp \in {"remove", "read"}, u \in Usuarios, i \in Ids}
    \cup {Peticion(tp, Some(u), None, None) :
              tp \in {Some("list"), Some("otra"), None}, u \in Usuarios}

RecibirCampos(c) ==
    /\ recibidas < MaxCampos
    /\ buffer[c] = <<>>
    /\ \E pet \in PeticionesCampos : onData(c, Linea(pet))

NextCampos ==
    \/ \E c \in Con : RecibirCampos(c)
    \/ \E t \in Tareas : fsAccess(t)
    \/ \E t \in Tareas : fsMkdir(t)
    \/ \E t \in Tareas : fsReaddir(t)
    \/ \E t \in Tareas : fsReadFile(t)
    \/ \E t \in Tareas : fsWriteFileOpen(t)
    \/ \E t \in Tareas : fsWriteFile(t)
    \/ \E t \in Tareas : fsUnlink(t)

SpecCampos == Init /\ [][NextCampos]_vars

\* --------------------------- the order of requests and responses, SpecOrden
\* Three requests: two that load the user's records and one the dispatcher
\* answers at once.
PeticionesOrden ==
    {Peticion(Some("list"), Some(u), None, None) : u \in Usuarios}
    \cup {Peticion(Some("read"), Some(u), None, Some(i)) : u \in Usuarios, i \in {MaxId}}
    \cup {Peticion(Some("add"), Some(u), None, None) : u \in Usuarios}

\* The chunks: one line, two lines, the first part of a line, and its second
\* part alone, followed by a line or following one.
TrozosOrden ==
    {Linea(p) : p \in PeticionesOrden}
    \cup {Linea(p) \o Linea(q) : p, q \in PeticionesOrden}
    \cup {<<Mitad1(p)>> : p \in PartidasTrama}
    \cup {<<Mitad2(p), LF>> : p \in PartidasTrama}
    \cup {<<Mitad2(p), LF>> \o Linea(q) : p \in PartidasTrama, q \in PeticionesOrden}
    \cup {Linea(q) \o <<Mitad1(p)>> : p \in PartidasTrama, q \in PeticionesOrden}

InitOrden ==
    /\ vivo = TRUE
    /\ dirs = Usuarios
    /\ fich = [u \in Usuarios |-> [i \in Ids |-> FicheroInicial(i)]]
    /\ buffer = [c \in Con |-> <<>>]
    /\ tareas = [t \in Tareas |-> TareaLibre]
    /\ ultimo = [u \in Usuarios |-> None]
    /\ borrados = [u \in Usuarios |-> {}]
    /\ salida = <<>>
    /\ despachado = <<>>
    /\ entrada = <<>>
    /\ recibidas = 0
    /\ abiertas = Con
    /\ historia = HistoriaVacia
    /\ cliente = ClienteInicial
    /\ chat = ChatInicial
    /\ crear = CrearInicial

RecibirOrden(c) ==
    /\ recibidas < MaxOrden
    /\ \E d \in TrozosOrden : onData(c, d)

NextOrden ==
    \/ \E c \in Con : RecibirOrden(c)
    \/ \E t \in Tareas : fsAccess(t)
    \/ \E t \in Tareas : fsReaddir(t)
    \/ \E t \in Tareas : fsReadFile(t)

SpecOrden == InitOrden /\ [][NextOrden]_vars

\* ------------------------------ the life of a connection, SpecConexion
\* The peer ends connection c ("end", then "close": the listeners only
\* print), or the socket fails ("error", then "close"). The chains in
\* flight go on.
socketCierra(c) ==
    /\ vivo
    /\ c \in abiertas
    /\ abiertas' = abiertas \ {c}
    /\ buffer' = [buffer EXCEPT ![c] = <<>>]
    /\ salida' = <<>>
    /\ despachado' = <<>>
    /\ entrada' = <<>>
    /\ UNCHANGED <<vivo, dirs, fich, tareas, ultimo, borrados, recibidas, historia>>
    /\ UNCHANGED ajenos

\* The lines: requests answered with success, with failure, at once or
\* after storage calls, a request without usuario and a line that is no
\* JSON.
PeticionesConexion ==
    {Peticion(Some("list"), Some(u), None, None) : u \in Usuarios}
    \cup {Peticion(Some("add"), Some(u), Some(Funko(i, ValorInicial)), None) :
              u \in Usuarios, i \in {MaxId}}
    \cup {Peticion(Some("add"), Some(u), None, None) : u \in Usuarios}
    \cup {Peticion(Some("list"), None, None, None)}

RecibirConexion(c) ==
    /\ recibidas < MaxCiclos
    /\ buffer[c] = <<>>
    /\ \/ \E pet \in PeticionesConexion : onData(c, Linea(pet))
       \/ onData(c, <<Basura, LF>>)

NextConexion ==
    \/ \E c \in Con : RecibirConexion(c)
    \/ \E c \in Con : socketCierra(c)
    \/ \E t \in Tareas : fsAccess(t)
    \/ \E t \in Tareas : fsMkdir(t)
    \/ \E t \in Tareas : fsReaddir(t)
    \/ \E t \in Tareas : fsReadFile(t)
    \/ \E t \in Tareas : fsWriteFileOpen(t)
    \/ \E t \in Tareas : fsWriteFile(t)

SpecConexion == Init /\ [][NextConexion]_vars

\* -------------------------- a filesystem call that stalls, SpecAtasco
\* The slot whose filesystem calls may never complete: the first request of
\* a run takes it.
TareaAtascada == 1

PeticionesAtasco ==
    {Peticion(Some("list"), Some(u), None, None) : u \in Usuarios}
    \cup {Peticion(Some("add"), Some(u), Some(Funko(i, ValorInicial)), None) :
              u \in Usuarios, i \in {MaxId}}
    \cup {Peticion(Some("remove"), Some(u), None, Some(i)) : u \in Usuarios, i \in {MaxId}}

RecibirAtasco(c) ==
    /\ recibidas < MaxAtasco
    /\ buffer[c] = <<>>
    /\ \E pet \in PeticionesAtasco : onData(c, Linea(pet))

NextAtasco ==
    \/ \E c \in Con : RecibirAtasco(c)
    \/ \E t \in Tareas : fsAccess(t)
    \/ \E t \in Tareas : fsMkdir(t)
    \/ \E t \in Tareas : fsReaddir(t)
    \/ \E t \in Tareas : fsReadFile(t)
    \/ \E t \in Tareas : fsWriteFileOpen(t)
    \/ \E t \in Tareas : fsWriteFile(t)
    \/ \E t \in Tareas : fsUnlink(t)

\* Every filesystem call of a chain in another slot completes; those of the
\* slot TareaAtascada may complete or not, at any point of its chain.
SpecAtasco ==
    /\ Init
    /\ [][NextAtasco]_vars
    /\ \A t \in Tareas \ {TareaAtascada} :
          /\ WF_vars(fsAccess(t))
          /\ WF_vars(fsMkdir(t))
          /\ WF_vars(fsReaddir(t))
          /\ WF_vars(fsReadFile(t))
          /\ WF_vars(fsWriteFileOpen(t))
          /\ WF_vars(fsWriteFile(t))
          /\ WF_vars(fsUnlink(t))

\* ------------------------------------------------- crearFunko, SpecCrear
\* enum TipoFunko
TipoFunko == {"Pop!", "Pop! Rides", "Vynil Soda", "Vynil Gold"}

\* A variant of the enum written without accents.
GeneroFunkoSinAcentos ==
    {"Animacion", "Películas y TV", "Videojuegos", "Deportes", "Música", "Anime"}

\* enum GeneroFunko
GeneroFunko ==
    {"Animación", "Películas y TV", "Videojuegos", "Deportes", "Música", "Ánime"}

\* The arguments of a call: texts that may be empty, numbers that may be
\* negative, any number as valorMercado.
ValoresCrear == {0 - 5, 0, 1, 5, Infinito, NoNumero}
ArgumentosCrear ==
    [id : Ids, nombre : {"", "n"}, descripcion : {"d"}, tipo : TipoFunko,
     genero : GeneroFunko, franquicia : {"", "f"}, numero : {0 - 1, 1},
     exclusivo : BOOLEAN, caracteristicasEspeciales : {"c"},
     valorMercado : ValoresCrear]

InitCrear ==
    /\ vivo = TRUE
    /\ dirs = {}
    /\ fich = [u \in Usuarios |-> SinFicheros]
    /\ buffer = [c \in Con |-> <<>>]
    /\ tareas = [t \in Tareas |-> TareaLibre]
    /\ ultimo = [u \in Usuarios |-> None]
    /\ borrados = [u \in Usuarios |-> {}]
    /\ salida = <<>>
    /\ despachado = <<>>
    /\ entrada = <<>>
    /\ recibidas = 0
    /\ abiertas = Con
    /\ historia = None
    /\ cliente = ClienteInicial
    /\ chat = ChatInicial
    /\ crear \in {[args |-> Some(a), llamada |-> FALSE, res |-> None] : a \in ArgumentosCrear}

\* crearFunko is called with the arguments.
Crear ==
    LET a == crear.args[1]
    IN  /\ ~crear.llamada
        /\ crear' = [crear EXCEPT
                        !.llamada = TRUE,
                        !.res = crearFunko(a.id, a.nombre, a.descripcion, a.tipo, a.genero,
                                           a.franquicia, a.numero, a.exclusivo,
                                           a.caracteristicasEspeciales, a.valorMercado)]
        /\ UNCHANGED <<servidor, cliente, chat>>

NextCrear == Crear

SpecCrear == InitCrear /\ [][NextCrear]_vars

\* ------------------------------------ eliminarFunko, two users, SpecBorrar
\* The directories under datos/ in this specification: two users.
DosUsuarios == {"ana", "bob"}

\* fs.unlink reports an error other than a missing entry (no permission on
\* the directory): the entry stays and eliminarFunko's callback gets false.
fsUnlinkError(t) ==
    /\ vivo /\ tareas[t].pc = "unlink"
    /\ alEliminar(t, tareas[t], FALSE)
    /\ UNCHANGED <<vivo, dirs, fich, buffer, recibidas>>

PeticionesBorrar ==
    {Peticion(Some("remove"), Some(u), None, Some(i)) : u \in DosUsuarios, i \in Ids}

\* bob's directory holds every record; ana's holds any of them, or does not
\* exist yet.
InitBorrar ==
    /\ vivo = TRUE
    /\ \E S \in SUBSET Ids :
          /\ dirs \in {DosUsuarios} \cup (IF S = {} THEN {{"bob"}} ELSE {})
          /\ fich = [u \in DosUsuarios |->
                        IF u = "bob" THEN [i \in Ids |-> FicheroInicial(i)]
                        ELSE [i \in S |-> FicheroInicial(i)]]
    /\ buffer = [c \in Con |-> <<>>]
    /\ tareas = [t \in Tareas |-> TareaLibre]
    /\ ultimo = [u \in DosUsuarios |-> None]
    /\ borrados = [u \in DosUsuarios |-> {}]
    /\ salida = <<>>
    /\ despachado = <<>>
    /\ entrada = <<>>
    /\ recibidas = 0
    /\ abiertas = Con
    /\ historia = None
    /\ cliente = ClienteInicial
    /\ chat = ChatInicial
    /\ crear = CrearInicial

RecibirBorrar(c) ==
    /\ recibidas < MaxBorrar
    /\ buffer[c] = <<>>
    /\ \E pet \in PeticionesBorrar : onData(c, Linea(pet))

NextBorrar ==
    \/ \E c \in Con : RecibirBorrar(c)
    \/ \E t \in Tareas : fsAccess(t)
    \/ \E t \in Tareas : fsMkdir(t)
    \/ \E t \in Tareas : fsMkdirError(t)
    \/ \E t \in Tareas : fsUnlink(t)
    \/ \E t \in Tareas : fsUnlinkError(t)

SpecBorrar == InitBorrar /\ [][NextBorrar]_vars

\* ------------------------------------- the chat server, SpecChat
\* chat.clientes is the array clientes (each entry is the id of its socket),
\* chat.buffer the variable buffer of each connection's closure,
\* chat.escritos the socket.write calls of the last handler run, in order,
\* chat.evento the last event handled.

\* What a client may send as the value of a line: a JSON object whose
\* property mensaje is absent, a string or a number and whose property
\* remitente is absent or a number; or the JSON value null.
ObjetoChat(remitente, mensaje) ==
    [clase |-> "objeto", remitente |-> remitente, mensaje |-> mensaje]
NullChat == [clase |-> "null", remitente |-> None, mensaje |-> None]
Texto(s) == [tipo |-> "string", v |-> s]
Numero(s) == [tipo |-> "number", v |-> s]

\* typeof objetoMensaje.mensaje === "string"; reading a property of null
\* throws a TypeError.
lanzaMensaje(objetoMensaje) == objetoMensaje.clase = "null"
esString(objetoMensaje) ==
    objetoMensaje.mensaje # None /\ objetoMensaje.mensaje[1].tipo = "string"

\* A variant that forwards the remitente the sender wrote, when there is one.
MensajeChatDelEmisor(idCliente, objetoMensaje) ==
    ObjetoChat(IF objetoMensaje.remitente # None THEN objetoMensaje.remitente
               ELSE Some(idCliente),
               objetoMensaje.mensaje)

\* const mensaje: MensajeChat = { remitente: idCliente, mensaje: objetoMensaje.mensaje }
MensajeChat(idCliente, objetoMensaje) ==
    ObjetoChat(Some(idCliente), objetoMensaje.mensaje)

\* clientes.forEach: one write of JSON.stringify(mensaje) + "\n" to every entry
\* whose id is not idCliente, in the order of the array.
RECURSIVE reenviar(_, _, _, _)
reenviar(clientes, k, idCliente, mensaje) ==
    IF k > Len(clientes) THEN <<>>
    ELSE (IF clientes[k] # idCliente
          THEN <<[a |-> clientes[k], linea |-> Linea(mensaje)]>>
          ELSE <<>>)
         \o reenviar(clientes, k + 1, idCliente, mensaje)

\* The while loop of the data handler: each complete line is cut off the
\* buffer and decoded; a line that is no JSON, and the value null, end in the
\* catch block, which only logs.
RECURSIVE ProcesarChat(_, _, _, _)
ProcesarChat(clientes, idCliente, buf, escritos) ==
    LET indice == indexOf(buf, 1)
    IN  IF indice = 0 THEN [buffer |-> buf, escritos |-> escritos]
        ELSE LET mensajeStr == SubSeq(buf, 1, indice - 1)
                 resto == SubSeq(buf, indice + 1, Len(buf))
                 p == JSONparseLinea(mensajeStr)
             IN  IF p.ok /\ ~lanzaMensaje(p.val) /\ esString(p.val)
                 THEN ProcesarChat(clientes, idCliente, resto,
                          escritos \o reenviar(clientes, 1, idCliente,
                                               MensajeChat(idCliente, p.val)))
                 ELSE ProcesarChat(clientes, idCliente, resto, escritos)

EnChat(c) == \E k \in 1..Len(chat.clientes) : chat.clientes[k] = c

\* createServer's connection listener: the next identifier, a new entry at
\* the end of clientes, an empty buffer.
\* A variant that numbers a client by its place in the array.
idPorLugar(clientes, contador) == Len(clientes) + 1

\* const idCliente: number = contadorClientes
idClienteDe(clientes, contador) == contador

chatConexion ==
    /\ chat.eventos < MaxChat
    /\ Len(chat.clientes) < MaxClientes
    /\ LET idCliente == idClienteDe(chat.clientes, chat.contadorClientes)
       IN  chat' = [clientes |-> Append(chat.clientes, idCliente),
                    contadorClientes |-> chat.contadorClientes + 1,
                    buffer |-> [c \in (DOMAIN chat.buffer) \cup {idCliente} |->
                                   IF c = idCliente THEN <<>> ELSE chat.buffer[c]],
                    escritos |-> <<>>,
                    evento |-> [tipo |-> "connection", de |-> idCliente, datos |-> <<>>],
                    eventos |-> chat.eventos + 1]
    /\ UNCHANGED <<servidor, cliente, crear>>

\* socket.on("data") of the connection of client c
chatData(c, datos) ==
    /\ chat.eventos < MaxChat
    /\ EnChat(c)
    /\ LET r == ProcesarChat(chat.clientes, c, chat.buffer[c] \o datos, <<>>)
       IN  chat' = [chat EXCEPT !.buffer[c] = r.buffer,
                                !.escritos = r.escritos,
                                !.evento = [tipo |-> "data", de |-> c, datos |-> datos],
                                !.eventos = @ + 1]
    /\ UNCHANGED <<servidor, cliente, crear>>

\* A variant that only shortens the array, without moving the entries down.
quitarUltima(clientes, i) == [j \in 1..(Len(clientes) - 1) |-> clientes[j]]

\* for (j = i; j < clientes.length - 1; j++) clientes[j] = clientes[j + 1];
\* clientes.length = clientes.length - 1
quitarEntrada(clientes, i) ==
    [j \in 1..(Len(clientes) - 1) |-> IF j < i THEN clientes[j] ELSE clientes[j + 1]]

\* socket.on("close") of the connection of client c: the entries after c's
\* move one place down and the array gets one shorter.
chatClose(c) ==
    /\ chat.eventos < MaxChat
    /\ EnChat(c)
    /\ LET i == CHOOSE k \in 1..Len(chat.clientes) : chat.clientes[k] = c
       IN  chat' = [chat EXCEPT
                       !.clientes = quitarEntrada(chat.clientes, i),
                       !.escritos = <<>>,
                       !.evento = [tipo |-> "close", de |-> c, datos |-> <<>>],
                       !.eventos = @ + 1]
    /\ UNCHANGED <<servidor, cliente, crear>>

\* What the clients of a run send.
ValoresChat ==
    {ObjetoChat(None, Some(Texto("hola"))),
     ObjetoChat(Some(MaxClientes), Some(Texto("adios"))),
     ObjetoChat(Some(1), Some(Numero("7"))),
     ObjetoChat(Some(1), None),
     NullChat}

\* The chunks of a data event: a whole line, a line that is no JSON, two
\* lines at once, and the two parts of a line cut inside its value.
TrozosChat ==
    {Linea(v) : v \in ValoresChat}
    \cup {<<Basura, LF>>}
    \cup {Linea(v) \o Linea(w) : v, w \in {ObjetoChat(None, Some(Texto("hola"))),
                                          ObjetoChat(Some(MaxClientes), Some(Texto("adios")))}}
    \cup {<<Mitad1(v)>> : v \in {ObjetoChat(Some(MaxClientes), Some(Texto("adios")))}}
    \cup {<<Mitad2(v), LF>> : v \in {ObjetoChat(Some(MaxClientes), Some(Texto("adios")))}}

NextChat ==
    \/ chatConexion
    \/ \E c \in 1..MaxChat, d \in TrozosChat : chatData(c, d)
    \/ \E c \in 1..MaxChat : chatClose(c)

SpecChat == Init /\ [][NextChat]_vars

\* ------------------------- a remove racing an update, SpecCarrera
\* Removes, updates whose record carries the id they name, and lists: no add.
PeticionesCarrera ==
    {Peticion(Some("remove"), Some(u), None, Some(i)) : u \in Usuarios, i \in Ids}
    \cup {Peticion(Some("update"), Some(u), Some(Funko(i, ValorInicial + 1)), Some(i)) :
              u \in Usuarios, i \in Ids}
    \cup {Peticion(Some("list"), Some(u), None, None) : u \in Usuarios}

RecibirCarrera(c) ==
    /\ recibidas < MaxCarrera
    /\ buffer[c] = <<>>
    /\ \E pet \in PeticionesCarrera : onData(c, Linea(pet))

NextCarrera ==
    \/ \E c \in Con : RecibirCarrera(c)
    \/ \E t \in Tareas : fsAccess(t)
    \/ \E t \in Tareas : fsMkdir(t)
    \/ \E t \in Tareas : fsReaddir(t)
    \/ \E t \in Tareas : fsReadFile(t)
    \/ \E t \in Tareas : fsWriteFileOpen(t)
    \/ \E t \in Tareas : fsWriteFile(t)
    \/ \E t \in Tareas : fsUnlink(t)

SpecCarrera == Init /\ [][NextCarrera]_vars

\* ------------------------- a load overlapping a save, SpecSolape
\* Updates of a stored record under its own id, lists and reads: no request
\* creates or deletes a file.
PeticionesSolape ==
    {Peticion(Some("update"), Some(u), Some(Funko(i, ValorInicial + 1)), Some(i)) :
              u \in Usuarios, i \in {1}}
    \cup {Peticion(Some("list"), Some(u), None, None) : u \in Usuarios}
    \cup {Peticion(Some("read"), Some(u), None, Some(i)) : u \in Usuarios, i \in {1}}

RecibirSolape(c) ==
    /\ recibidas < MaxSolape
    /\ buffer[c] = <<>>
    /\ \E pet \in PeticionesSolape : onData(c, Linea(pet))

NextSolape ==
    \/ \E c \in Con : RecibirSolape(c)
    \/ \E t \in Tareas : fsAccess(t)
    \/ \E t \in Tareas : fsMkdir(t)
    \/ \E t \in Tareas : fsReaddir(t)
    \/ \E t \in Tareas : fsReadFile(t)
    \/ \E t \in Tareas : fsWriteFileOpen(t)
    \/ \E t \in Tareas : fsWriteFile(t)

SpecSolape == Init /\ [][NextSolape]_vars

\* ------------------------- path-like ids, two users, SpecAislamiento
\* Requests of ana whose id, or whose record's id, is a number or the text
\* "../bob/k", and lists of bob.
PeticionesAislamiento ==
    {Peticion(Some("remove"), Some("ana"), None, Some(i)) : i \in {1, Trepa + 1}}
    \cup {Peticion(Some("add"), Some("ana"), Some(Funko(i, ValorInicial + 1)), None) :
              i \in {MaxId, Trepa + MaxId}}
    \cup {Peticion(Some("list"), Some(OtroUsuario), None, None)}

RecibirAislamiento(c) ==
    /\ recibidas < MaxAislamiento
    /\ buffer[c] = <<>>
    /\ \E pet \in PeticionesAislamiento : onData(c, Linea(pet))

NextAislamiento ==
    \/ \E c \in Con : RecibirAislamiento(c)
    \/ \E t \in Tareas : fsAccess(t)
    \/ \E t \in Tareas : fsMkdir(t)
    \/ \E t \in Tareas : fsReaddir(t)
    \/ \E t \in Tareas : fsReadFile(t)
    \/ \E t \in Tareas : fsWriteFileOpen(t)
    \/ \E t \in Tareas : fsWriteFile(t)
    \/ \E t \in Tareas : fsUnlink(t)

SpecAislamiento == InitBorrar /\ [][NextAislamiento]_vars

\* ------------------------- one text cut in several ways, SpecCortes
\* Requests answered inside the data handler, so that the run of a
\* connection is its framing alone.
PeticionesCortes == {Peticion(Some("add"), Some(u), None, None) : u \in Usuarios}

SimbolosCortes ==
    {LF, Basura} \cup {Entera(p) : p \in PeticionesCortes}
                 \cup {Mitad1(p) : p \in PeticionesCortes}
                 \cup {Mitad2(p) : p \in PeticionesCortes}

\* A data event delivers any text of 1..MaxCorte symbols: the stream may be
\* cut anywhere.
TrozosCortes == UNION {[1..n -> SimbolosCortes] : n \in 1..MaxCorte}

RecibirCortes(c) ==
    /\ recibidas < MaxCortes
    /\ \E d \in TrozosCortes : onData(c, d)

NextCortes == \E c \in Con : RecibirCortes(c)

SpecCortes == InitOrden /\ [][NextCortes]_vars

\* ------------------------- list and read among writers, SpecLectura
\* Each of the two users has a directory with every record, or none yet.
InitLectura ==
    /\ vivo = TRUE
    /\ dirs \in SUBSET DosUsuarios
    /\ fich = [u \in DosUsuarios |->
                  IF u \in dirs THEN [i \in Ids |-> FicheroInicial(i)] ELSE SinFicheros]
    /\ buffer = [c \in Con |-> <<>>]
    /\ tareas = [t \in Tareas |-> TareaLibre]
    /\ ultimo = [u \in DosUsuarios |-> None]
    /\ borrados = [u \in DosUsuarios |-> {}]
    /\ salida = <<>>
    /\ despachado = <<>>
    /\ entrada = <<>>
    /\ recibidas = 0
    /\ abiertas = Con
    /\ historia = None
    /\ cliente = ClienteInicial
    /\ chat = ChatInicial
    /\ crear = CrearInicial

\* Lists and reads of both users, next to an add and a remove.
PeticionesLectura ==
    {Peticion(Some("list"), Some(u), None, None) : u \in DosUsuarios}
    \cup {Peticion(Some("read"), Some(u), None, Some(i)) : u \in DosUsuarios, i \in {1}}
    \cup {Peticion(Some("add"), Some("ana"), Some(Funko(MaxId, ValorInicial)), None)}
    \cup {Peticion(Some("remove"), Some(OtroUsuario), None, Some(MaxId))}

RecibirLectura(c) ==
    /\ recibidas < MaxLectura
    /\ buffer[c] = <<>>
    /\ \E pet \in PeticionesLectura : onData(c, Linea(pet))

NextLectura ==
    \/ \E c \in Con : RecibirLectura(c)
    \/ \E t \in Tareas : fsAccess(t)
    \/ \E t \in Tareas : fsMkdir(t)
    \/ \E t \in Tareas : fsReaddir(t)
    \/ \E t \in Tareas : fsReadFile(t)
    \/ \E t \in Tareas : fsWriteFileOpen(t)
    \/ \E t \in Tareas : fsWriteFile(t)
    \/ \E t \in Tareas : fsUnlink(t)

SpecLectura == InitLectura /\ [][NextLectura]_vars

\* ------------------------- requests of no known kind, SpecTipo
\* Requests whose tipo is another text or is absent, with and without each
\* of the other fields, and a list.
PeticionesOtroTipo ==
    {Peticion(tp, us, fk, id) :
        tp \in {Some("otra"), None}, us \in {Some(u) : u \in Usuarios} \cup {None},
        fk \in {None, Some(Funko(1, ValorInicial))}, id \in {None, Some(1)}}

PeticionesTipo ==
    PeticionesOtroTipo \cup {Peticion(Some("list"), Some(u), None, None) : u \in Usuarios}

RecibirTipo(c) ==
    /\ recibidas < MaxTipo
    /\ buffer[c] = <<>>
    /\ \E pet \in PeticionesTipo : onData(c, Linea(pet))

NextTipo ==
    \/ \E c \in Con : RecibirTipo(c)
    \/ \E t \in Tareas : fsAccess(t)
    \/ \E t \in Tareas : fsMkdir(t)
    \/ \E t \in Tareas : fsReaddir(t)
    \/ \E t \in Tareas : fsReadFile(t)

SpecTipo == Init /\ [][NextTipo]_vars

\* ------------------------- one response per line, SpecRespuesta
\* Requests of every outcome: answered after filesystem calls (list, add,
\* remove), answered at once (add without funko), and a list that names no
\* user.
PeticionesRespuesta ==
    {Peticion(Some("list"), Some(u), None, None) : u \in Usuarios}
    \cup {Peticion(Some("add"), Some(u), Some(Funko(i, ValorInicial)), None) :
              u \in Usuarios, i \in {1}}
    \cup {Peticion(Some("remove"), Some(u), None, Some(i)) : u \in Usuarios, i \in {1}}
    \cup {Peticion(Some("add"), Some(u), None, None) : u \in Usuarios}
    \cup {Peticion(Some("list"), None, None, None)}

\* A chunk holds one line, a line that is no JSON, or two lines.
TrozosRespuesta ==
    {Linea(p) : p \in PeticionesRespuesta}
    \cup {<<Basura, LF>>}
    \cup {Linea(p) \o Linea(q) : p, q \in PeticionesRespuesta}

RecibirRespuesta(c) ==
    /\ recibidas < MaxRespuesta
    /\ \E d \in TrozosRespuesta : onData(c, d)

NextRespuesta ==
    \/ \E c \in Con : RecibirRespuesta(c)
    \/ \E t \in Tareas : fsAccess(t)
    \/ \E t \in Tareas : fsReaddir(t)
    \/ \E t \in Tareas : fsReadFile(t)
    \/ \E t \in Tareas : fsWriteFileOpen(t)
    \/ \E t \in Tareas : fsWriteFile(t)
    \/ \E t \in Tareas : fsUnlink(t)

\* Every filesystem call a chain has started completes.
SpecRespuesta ==
    /\ InitOrden
    /\ [][NextRespuesta]_vars
    /\ \A t \in Tareas :
          /\ WF_vars(fsAccess(t))
          /\ WF_vars(fsReaddir(t))
          /\ WF_vars(fsReadFile(t))
          /\ WF_vars(fsWriteFileOpen(t))
          /\ WF_vars(fsWriteFile(t))
          /\ WF_vars(fsUnlink(t))

\* ------------------------------------------- the client, SpecCliente
\* What the client's socket receives, in symbols: a response with exito true,
\* one with exito false, the JSON text null, a text that is no JSON, and the
\* line feed.
SimbolosCliente == {"ok", "mal", "null", "basura", "lf"}

\* buffer.indexOf("\n") of the client, from position i on; 0 stands for -1.
RECURSIVE indexOfCliente(_, _)
indexOfCliente(s, i) ==
    IF i > Len(s) THEN 0 ELSE IF s[i] = "lf" THEN i ELSE indexOfCliente(s, i + 1)

\* The try block of the client's data handler on one line: the message
\* printed in green, in red, or the catch branch (JSON.parse throws, or the
\* text decodes to null and respuesta.exito throws).
verRespuesta(mensajeStr) ==
    IF mensajeStr = <<"ok">> THEN "verde"
    ELSE IF mensajeStr = <<"mal">> THEN "rojo"
    ELSE "catch"

\* A variant in which socket.end() is inside the try block.
terminaSoloSiOk(visto) == visto # "catch"

\* socket.end() follows the try/catch of every line.
terminaTras(visto) == TRUE

\* The while loop of the client's data handler.
RECURSIVE ProcesarCliente(_)
ProcesarCliente(st) ==
    LET index == indexOfCliente(st.buffer, 1)
    IN  IF index = 0 THEN st
        ELSE LET mensajeStr == SubSeq(st.buffer, 1, index - 1)
                 visto == verRespuesta(mensajeStr)
                 termina == terminaTras(visto)
             IN ProcesarCliente(
                    [st EXCEPT !.buffer = SubSeq(st.buffer, index + 1, Len(st.buffer)),
                               !.vistas = Append(@, visto),
                               !.ends = IF termina THEN @ + 1 ELSE @,
                               !.fase = IF termina THEN "fin" ELSE @])

\* The connection is established: the connect listener writes the request.
clienteConnect ==
    /\ cliente.fase = "conectando"
    /\ cliente' = [cliente EXCEPT !.fase = "conectado", !.escritas = @ + 1]
    /\ UNCHANGED <<servidor, chat, crear>>

\* The connection fails: the error listener prints the error.
clienteError ==
    /\ cliente.fase = "conectando"
    /\ cliente' = [cliente EXCEPT !.fase = "error"]
    /\ UNCHANGED <<servidor, chat, crear>>

\* A data event of the client's socket; after socket.end() the socket still
\* reads until the server's end arrives.
clienteData(data) ==
    /\ cliente.fase \in {"conectado", "fin"}
    /\ cliente.datos < MaxDatos
    /\ cliente' = ProcesarCliente([cliente EXCEPT !.buffer = @ \o data, !.datos = @ + 1])
    /\ UNCHANGED <<servidor, chat, crear>>

\* The socket closes: the server ended its side, or the process of the
\* server ended.
clienteClose ==
    /\ cliente.fase \in {"conectado", "fin"}
    /\ cliente' = [cliente EXCEPT !.fase = "cerrado"]
    /\ UNCHANGED <<servidor, chat, crear>>

TrozosCliente == UNION {[1..n -> SimbolosCliente] : n \in 1..MaxTrozo}

NextCliente ==
    \/ clienteConnect
    \/ clienteError
    \/ \E d \in TrozosCliente : clienteData(d)
    \/ clienteClose

SpecCliente == Init /\ [][NextCliente]_vars

\* ================================================================ claims
Entradas == {salida[k] : k \in 1..Len(salida)}
EsDe(e, tipo) == e.pet # None /\ e.pet[1].tipo = Some(tipo)
Decodable(u, n) == JSONparse(fich[u][n].txt).ok
Guardado(u, n) == JSONparse(fich[u][n].txt).val
IdsDistintos(lista) ==
    \A a, b \in 1..Len(lista) : a # b => lista[a].id # lista[b].id

\* An add that follows, alone, a successful add of the same id.
SegundoAdd(e) ==
    /\ EsDe(e, "add") /\ e.pet[1].funko # None
    /\ e.prev # None /\ e.prev[1].exito
    /\ EsAddDe(e.prev[1].pet, Some(e.pet[1].funko[1].id))

\* C1: an add of an id, sent after an add of the same id for the same user
\* was answered with success and with no other request of that user in
\* between, is answered with exito = false, and the record stored under the
\* id is still the one of the first add.
C1_SegundoAddRechazado ==
    \A e \in Entradas :
        SegundoAdd(e) =>
            LET u == e.pet[1].usuario[1]
                i == e.pet[1].funko[1].id
            IN  /\ ~e.resp.exito
                /\ i \in DOMAIN fich[u]
                /\ fich[u][i].txt = JSONstringify(e.prev[1].pet.funko[1])

C1_Witness ==
    \E e \in Entradas :
        /\ SegundoAdd(e)
        /\ e.pet[1].funko[1] # e.prev[1].pet.funko[1]
        /\ e.resp.mensaje = MsgYaExiste

\* C2: under every interleaving of the requests, the decodable records stored
\* for one user have pairwise distinct ids, and so have the records of every
\* list cargarFunkosUsuario builds or delivers.
C2_IdsUnicos ==
    /\ \A u \in Usuarios : \A n, m \in DOMAIN fich[u] :
           (n # m /\ Decodable(u, n) /\ Decodable(u, m))
               => Guardado(u, n).id # Guardado(u, m).id
    /\ \A t \in Tareas : IdsDistintos(tareas[t].lista)
    /\ \A e \in Entradas : e.resp.funkos # None => IdsDistintos(e.resp.funkos[1])

C2_Witness ==
    \E e \in Entradas :
        /\ EsDe(e, "list") /\ e.resp.funkos # None
        /\ Len(e.resp.funkos[1]) = MaxId
        /\ \E j \in 1..MaxId : e.resp.funkos[1][j].valorMercado # ValorInicial

\* An add whose write truncated the record another add had just stored.
AddSobreAdd(e) ==
    /\ EsDe(e, "add") /\ e.antes # None /\ e.antes[1].por = "add"

\* C3: an add that passed the existence check while another add of the same
\* id was in flight, and writes after that one has stored its record, is
\* answered with exito = true like the first, and the record of the first is
\* no longer stored.
C3_AmbosAddConExito ==
    \A e \in Entradas :
        AddSobreAdd(e) =>
            LET u == e.pet[1].usuario[1]
                i == e.pet[1].funko[1].id
                mio == JSONstringify(e.pet[1].funko[1])
            IN  /\ e.resp.exito /\ e.resp.mensaje = MsgAnadido
                /\ JSONparse(e.antes[1].txt).val.id = i
                /\ (i \in DOMAIN fich[u] =>
                       (fich[u][i].txt # e.antes[1].txt \/ e.antes[1].txt = mio))

C3_Witness ==
    \E e \in Entradas :
        /\ AddSobreAdd(e) /\ e.resp.exito
        /\ e.antes[1].txt # JSONstringify(e.pet[1].funko[1])
        /\ fich[e.pet[1].usuario[1]][e.pet[1].funko[1].id].txt
              = JSONstringify(e.pet[1].funko[1])

\* C4: when guardarFunko(u, r) has reported true for a record r with a
\* valorMercado greater than zero, a cargarFunkosUsuario(u) called next
\* delivers a list holding a record equal to r in every field.
C4_IdaYVuelta ==
    \A e \in Entradas :
        (/\ EsDe(e, "cargar") /\ e.prev # None /\ e.prev[1].exito
         /\ e.prev[1].pet.tipo = Some("guardar")
         /\ e.prev[1].pet.funko[1].valorMercado > 0)
            => /\ e.resp.funkos # None
               /\ \E j \in 1..Len(e.resp.funkos[1]) :
                      e.resp.funkos[1][j] = e.prev[1].pet.funko[1]

\* C5: a read of id i that follows a successful remove of i, with no add of i
\* in between, is answered with exito = false.
C5_LeerTrasBorrar ==
    \A e \in Entradas : (EsDe(e, "read") /\ e.tras) => ~e.resp.exito

\* C6: a read of id i that follows, alone, a successful update(i, r) is
\* answered with exactly the record r.
C6_UpdateReemplaza ==
    \A e \in Entradas :
        (/\ EsDe(e, "read") /\ e.prev # None /\ e.prev[1].exito
         /\ e.prev[1].pet.tipo = Some("update")
         /\ e.prev[1].pet.id = e.pet[1].id)
            => /\ e.resp.exito
               /\ e.resp.funkos = Some(<<e.prev[1].pet.funko[1]>>)

\* C7: every record in the storage has a valorMercado greater than zero,
\* whatever add and update requests the server has received.
C7_SoloValorPositivo ==
    \A u \in Usuarios : \A n \in DOMAIN fich[u] :
        Decodable(u, n) => Guardado(u, n).valorMercado > 0

\* C8: whatever lines the connections have delivered, the server process is
\* running.
C8_ServidorVivo == vivo

\* The lines of a text, as the positions of its line feeds cut it, and the
\* text after the last line feed.
PosLF(s) == {i \in 1..Len(s) : s[i] = LF}
InicioDe(s, i) ==
    IF \E j \in PosLF(s) : j < i
    THEN (CHOOSE j \in PosLF(s) : j < i /\ \A m \in PosLF(s) : m < i => m <= j) + 1
    ELSE 1
LineasDe(s) ==
    LET cortes == Ordenados(PosLF(s))
    IN  [k \in 1..Len(cortes) |-> SubSeq(s, InicioDe(s, cortes[k]), cortes[k] - 1)]
RestoDe(s) == SubSeq(s, InicioDe(s, Len(s) + 1), Len(s))
Decodifica(l) == JSONparseLinea(l).ok
Buenas(s) == SelectSeq(LineasDe(s), Decodifica)
Malas(s) == SelectSeq(LineasDe(s), LAMBDA l : ~Decodifica(l))
ErroresDe(sal) == SelectSeq(sal, LAMBDA e : e.pet = None)
EnVuelo(tar) == {t \in Tareas : tar[t].pc # "libre"}
AlAlmacen(s) ==
    {k \in 1..Len(Buenas(s)) : ~procesarPeticion(JSONparseLinea(Buenas(s)[k]).val).sync}

\* C9: after a data event whose text holds a line that fails JSON decoding,
\* the server runs, the buffer of the connection holds the text after the
\* last line feed, and every well-formed line of the text, before or after
\* the malformed one, was handed to the dispatcher, in order.
C9_SigueTrasLineaMala ==
    (entrada # <<>> /\ Len(Malas(entrada[1].texto)) > 0) =>
        LET c == entrada[1].con
            s == entrada[1].texto
        IN  /\ vivo
            /\ buffer[c] = RestoDe(s)
            /\ despachado = [k \in 1..Len(Buenas(s)) |-> JSONparseLinea(Buenas(s)[k]).val]

C9_Witness ==
    /\ entrada # <<>>
    /\ Len(LineasDe(entrada[1].texto)) >= 2
    /\ ~Decodifica(LineasDe(entrada[1].texto)[1])
    /\ Decodifica(LineasDe(entrada[1].texto)[2])
    /\ despachado = <<JSONparseLinea(LineasDe(entrada[1].texto)[2]).val>>

\* C10: a data event writes, for every malformed line of its text, exactly
\* one response, with exito = false and tipo "list"; the dispatcher is
\* invoked for the well-formed lines only, and the storage for those of them
\* that name a storage operation: with malformed lines only, no chain starts
\* and nothing is dispatched.
C10_LineaMalaSoloResponde ==
    [][entrada' # <<>> =>
          LET c == entrada'[1].con
              s == entrada'[1].texto
          IN  /\ ErroresDe(salida') =
                    [k \in 1..Len(Malas(s)) |->
                        Escrito(c, None, Respuesta(Some("list"), FALSE, MsgParseo, None),
                                None, FALSE, None)]
              /\ Len(despachado') = Len(Buenas(s))
              /\ Cardinality(EnVuelo(tareas')) - Cardinality(EnVuelo(tareas))
                    = Cardinality(AlAlmacen(s))
              /\ fich' = fich /\ dirs' = dirs]_vars

C10_Witness ==
    /\ entrada # <<>>
    /\ Len(Malas(entrada[1].texto)) = 2
    /\ Len(Buenas(entrada[1].texto)) = 0
    /\ Len(salida) = 2
    /\ despachado = <<>>
    /\ EnVuelo(tareas) = {}

\* What a data event on connection c writes for one line before it returns:
\* the failure response of the catch block, the response of a request the
\* dispatcher answers itself, or nothing (the chain answers later).
RespuestaDirecta(c, l) ==
    IF ~Decodifica(l)
    THEN <<Escrito(c, None, respuestaError, None, FALSE, None)>>
    ELSE LET p == JSONparseLinea(l).val
             d == procesarPeticion(p)
         IN  IF d.sync THEN <<Escrito(c, Some(p), d.resp, None, FALSE, None)>>
             ELSE <<>>

RECURSIVE Aplanar(_)
Aplanar(ss) == IF ss = <<>> THEN <<>> ELSE Head(ss) \o Aplanar(Tail(ss))

SalidaDe(c, s) ==
    Aplanar([k \in 1..Len(LineasDe(s)) |-> RespuestaDirecta(c, LineasDe(s)[k])])

\* C11: a data event whose text holds n line feeds handles exactly n
\* messages, in the order of their line feeds: the well-formed ones are
\* dispatched in that order, and what the handler writes before it returns
\* follows that order too; two whole messages in one chunk are two dispatched
\* requests, the first before the second.
C11_MensajesEnOrden ==
    entrada # <<>> =>
        LET c == entrada[1].con
            s == entrada[1].texto
        IN  /\ Len(despachado) + Len(ErroresDe(salida)) = Cardinality(PosLF(s))
            /\ despachado = [k \in 1..Len(Buenas(s)) |-> JSONparseLinea(Buenas(s)[k]).val]
            /\ salida = SalidaDe(c, s)

C11_Witness ==
    /\ entrada # <<>>
    /\ \E p, q \in PeticionesTrama :
          /\ p # q
          /\ entrada[1].texto = Linea(p) \o Linea(q)
          /\ despachado = <<p, q>>

\* C12: whenever the data handler has returned, the buffer of every
\* connection holds no line feed; after a data event the buffer is the text
\* after the last line feed, every segment a line feed ends was consumed once
\* (dispatched or answered with the failure response), and a text without a
\* line feed is kept whole and nothing of it is dispatched.
C12_BufferSinLF ==
    /\ \A c \in Con : PosLF(buffer[c]) = {}
    /\ entrada # <<>> =>
          LET c == entrada[1].con
              s == entrada[1].texto
          IN  /\ buffer[c] = RestoDe(s)
              /\ Aplanar([k \in 1..Len(LineasDe(s)) |-> LineasDe(s)[k] \o <<LF>>])
                    \o buffer[c] = s
              /\ Len(despachado) = Len(Buenas(s))
              /\ Len(ErroresDe(salida)) = Len(Malas(s))
              /\ PosLF(s) = {} => (buffer[c] = s /\ despachado = <<>> /\ salida = <<>>)

C12_Witness ==
    /\ entrada # <<>>
    /\ Len(entrada[1].texto) > MaxTrozo
    /\ PosLF(entrada[1].texto) # {}
    /\ buffer[entrada[1].con] # <<>>
    /\ Len(despachado) = 1

\* The valid records of u's directory, as the initial state of SpecCarga
\* stored them.
Validos(u) ==
    {n \in DOMAIN fich[u] : n \in Ids /\ fich[u][n] = FicheroInicial(n)}
Rango(lista) == {lista[k] : k \in 1..Len(lista)}

\* C13: a list request on a directory that holds corrupt record files (and
\* entries that are no record files) besides valid ones is answered with
\* exito = true and a list that holds exactly the records of the valid
\* files, each once.
C13_ListaSinCorruptos ==
    \A e \in Entradas :
        EsDe(e, "list") =>
            LET u == e.pet[1].usuario[1]
            IN  /\ e.resp.exito /\ e.resp.funkos # None
                /\ Rango(e.resp.funkos[1]) = {Funko(n, ValorInicial) : n \in Validos(u)}
                /\ Len(e.resp.funkos[1]) = Cardinality(Validos(u))

C13_Witness ==
    \E e \in Entradas :
        /\ EsDe(e, "list") /\ e.resp.exito
        /\ Len(e.resp.funkos[1]) = 1
        /\ \E n, m \in Ids :
              /\ DOMAIN fich[e.pet[1].usuario[1]] = {n, m}
              /\ fich[e.pet[1].usuario[1]][n] = FicheroCorrupto
              /\ fich[e.pet[1].usuario[1]][m] = FicheroInicial(m)

\* C15: a list request for a user whose directory holds no entry, the
\* directory the request itself creates included, is answered with
\* exito = true and an empty list.
C15_ListaVacia ==
    \A e \in Entradas :
        (EsDe(e, "list") /\ DOMAIN fich[e.pet[1].usuario[1]] = {})
            => /\ e.resp.exito
               /\ e.resp.mensaje = MsgListados
               /\ e.resp.funkos = Some(<<>>)

C15_Witness ==
    \E e \in Entradas :
        /\ EsDe(e, "list") /\ e.resp.funkos = Some(<<>>)
        /\ DOMAIN fich[e.pet[1].usuario[1]] = {}
        /\ recibidas = 1

\* C17: the list cargarFunkosUsuario builds grows at its end by the record
\* of the read that completes, whatever the order of the directory listing;
\* the list delivered holds the same records under every order of completion.
C17_OrdenDeLectura ==
    [][\A t \in Tareas :
           (/\ tareas[t].pc = "readFile"
            /\ (tareas'[t].pc # "readFile" \/ tareas'[t].contador # tareas[t].contador)) =>
               LET a == tareas[t]
                   u == a.pet.usuario[1]
               IN  \E n \in a.pend :
                       LET crece == IF n \in DOMAIN fich[u] /\ Decodable(u, n)
                                    THEN Append(a.lista, Guardado(u, n))
                                    ELSE a.lista
                       IN  IF tareas'[t].pc = "readFile"
                           THEN tareas'[t].lista = crece /\ tareas'[t].pend = a.pend \ {n}
                           ELSE /\ a.pend = {n}
                                /\ a.pet.tipo = Some("list") =>
                                      /\ salida'[1].resp.funkos = Some(crece)
                                      /\ Rango(crece) = {Guardado(u, m) :
                                             m \in {k \in Rango(a.archivos) :
                                                      esJson(k) /\ Decodable(u, k)}}]_vars

C17_Witness ==
    \E e \in Entradas :
        /\ EsDe(e, "list") /\ e.resp.funkos # None
        /\ Len(e.resp.funkos[1]) = 2
        /\ e.resp.funkos[1][1].id > e.resp.funkos[1][2].id

\* C14: cargarFunkosUsuario delivers undefined exactly when fs.mkdir or
\* fs.readdir failed: a delivery made by the completion of a read, failed or
\* not, and one made while entries that are no record files are counted,
\* carries a list.
C14_FalloSoloDeDirectorio ==
    [][\A t \in Tareas :
           LET a == tareas[t]
               entrega == a.pc # "libre" /\ tareas'[t].pc = "libre"
               indefinida == ~salida'[1].resp.exito /\ salida'[1].resp.funkos = None
           IN  /\ (entrega /\ indefinida) => (fsMkdirError(t) \/ fsReaddirError(t))
               /\ (fsMkdirError(t) \/ fsReaddirError(t)) => (entrega /\ indefinida)
               /\ (entrega /\ a.pc = "readFile") => salida'[1].resp.funkos # None
               /\ (fsReaddir(t) /\ entrega) => salida'[1].resp.funkos # None]_vars

\* A call that failed, and a later call that delivers a list although the
\* read of a valid record failed.
C14_Witness ==
    \E u \in Usuarios :
        /\ salida # <<>> /\ salida[1].resp.exito
        /\ salida[1].prev # None /\ ~salida[1].prev[1].exito
        /\ Len(salida[1].resp.funkos[1]) < Cardinality(Validos(u))

\* C16: while reads are pending, the count of cargarFunkosUsuario is the
\* number of entries less the pending reads and below the number of entries:
\* the callback is invoked by the completion that counts the last entry, once,
\* whatever the order of the completions.
C16_UnaSolaEntrega ==
    /\ \A t \in Tareas :
          tareas[t].pc = "readFile" =>
              /\ tareas[t].pend # {}
              /\ tareas[t].contador + Cardinality(tareas[t].pend) = Len(tareas[t].archivos)
              /\ tareas[t].pend \subseteq Rango(tareas[t].archivos)
    /\ Len(salida) <= 1

\* The list of a directory with two record files and an entry that is none
\* is delivered with the later record first.
C16_Witness ==
    /\ salida # <<>> /\ salida[1].resp.exito
    /\ \E u \in Usuarios : NombreNotas \in DOMAIN fich[u]
    /\ Len(salida[1].resp.funkos[1]) = 2
    /\ salida[1].resp.funkos[1][1].id > salida[1].resp.funkos[1][2].id
    /\ salida[1].pet[1].tipo = Some("cargar")

\* Task t serves an add whose id the user's directory holds as a record, or
\* an update, a read or a remove whose id names no file of the directory.
SinEfecto(t) ==
    LET pet == tareas[t].pet
        u == pet.usuario[1]
    IN  /\ tareas[t].pc # "libre"
        /\ pet.usuario # None
        /\ \/ /\ pet.tipo = Some("add") /\ pet.funko # None
              /\ pet.funko[1].id \in DOMAIN fich[u]
              /\ Decodable(u, pet.funko[1].id)
              /\ Guardado(u, pet.funko[1].id).id = pet.funko[1].id
           \/ /\ pet.tipo \in {Some("update"), Some("read"), Some("remove")}
              /\ pet.id # None
              /\ pet.id[1] \notin DOMAIN fich[u]

\* C18: a request that runs alone and is an add of an id already stored, or
\* an update, a read or a remove of an id not stored, changes no file in any
\* of its steps and is answered with exito = false.
C18_RechazoSinCambios ==
    [][\A t \in Tareas :
           SinEfecto(t) =>
               /\ fich' = fich
               /\ tareas'[t].pc = "libre" =>
                     (salida' # <<>> /\ salida'[1].pet = Some(tareas[t].pet)
                      /\ ~salida'[1].resp.exito)]_vars

\* A remove of an id not stored is answered with failure, after an add of a
\* stored id was.
C18_Witness ==
    \E e \in Entradas :
        /\ EsDe(e, "remove") /\ ~e.resp.exito
        /\ e.pet[1].id[1] \notin DOMAIN fich[e.pet[1].usuario[1]]
        /\ e.prev # None /\ ~e.prev[1].exito
        /\ e.prev[1].pet.tipo = Some("add") /\ e.prev[1].pet.funko # None
        /\ e.prev[1].pet.funko[1].id \in DOMAIN fich[e.pet[1].usuario[1]]

\* C19: the data event that dispatches a request lacking a field its kind
\* requires writes that request's response with exito = false, starts no
\* chain of storage calls, and leaves the directories and files as they are.
C19_SinLlamadaAlAlmacen ==
    [][\A k \in 1..Len(despachado') :
           despachado'[k] \in PeticionesIncompletas =>
               /\ \E e \in {salida'[j] : j \in 1..Len(salida')} :
                     /\ e.pet = Some(despachado'[k])
                     /\ e.resp.tipo = despachado'[k].tipo
                     /\ ~e.resp.exito
               /\ \A t \in Tareas : tareas[t].pc = "libre" => tareas'[t].pc = "libre"
               /\ dirs' = dirs
               /\ fich' = fich]_vars

\* An update without id is answered while the chain of an earlier request
\* is in flight and the user has no directory yet.
C19_Witness ==
    /\ despachado # <<>>
    /\ despachado[1].tipo = Some("update") /\ despachado[1].id = None
    /\ despachado[1].funko # None
    /\ salida # <<>> /\ ~salida[1].resp.exito
    /\ \E t \in Tareas : tareas[t].pc = "mkdir"
    /\ dirs = {}

\* The texts procesarPeticion gives as mensaje.
Mensajes ==
    {MsgSinFunko, MsgErrorLeyendo, MsgYaExiste, MsgAnadido, MsgNoGuardado,
     MsgIncompleto, MsgNoExiste, MsgActualizado, MsgNoActualizado,
     MsgSinIdEliminar, MsgEliminado, MsgNoEliminado, MsgListados, MsgSinIdLeer,
     MsgNoEncontrado, MsgEncontrado, MsgNoSoportada}

\* C20: every response procesarPeticion gives, on success and on every
\* failure path, has the tipo of the request it answers (none when the
\* request has none), a boolean exito and a text mensaje.
C20_TipoDevuelto ==
    \A e \in Entradas :
        e.pet # None =>
            /\ e.resp.tipo = e.pet[1].tipo
            /\ e.resp.exito \in BOOLEAN
            /\ e.resp.mensaje \in Mensajes

\* A request of an unknown kind is answered with its own tipo after an
\* update was answered with success.
C20_Witness ==
    \E e \in Entradas :
        /\ EsDe(e, "otra") /\ e.resp.tipo = Some("otra") /\ ~e.resp.exito
        /\ \E u \in Usuarios :
              \E i \in DOMAIN fich[u] : fich[u][i].por = "update"

\* C21: a successful list response carries the list cargarFunkosUsuario
\* delivered; a successful read response carries one record, whose id is the
\* id asked for; the responses to add, update and remove and every failure
\* response carry no list.
C21_ListaEnRespuesta ==
    [][/\ \A k \in 1..Len(salida') :
             LET e == salida'[k]
             IN  /\ ~e.resp.exito => e.resp.funkos = None
                 /\ (e.pet # None /\ e.pet[1].tipo \notin {Some("list"), Some("read")})
                       => e.resp.funkos = None
                 /\ (EsDe(e, "read") /\ e.resp.exito) =>
                       /\ e.resp.funkos # None
                       /\ Len(e.resp.funkos[1]) = 1
                       /\ e.resp.funkos[1][1].id = e.pet[1].id[1]
                 /\ (EsDe(e, "list") /\ e.resp.exito) => e.resp.funkos # None
       /\ \A t \in Tareas :
             LET a == tareas[t]
             IN  (/\ a.pc \in {"readdir", "readFile"} /\ a.pet.tipo = Some("list")
                  /\ tareas'[t].pc = "libre" /\ salida'[1].resp.exito) =>
                     IF a.pc = "readdir" THEN salida'[1].resp.funkos = Some(<<>>)
                     ELSE \E n \in a.pend :
                             \/ salida'[1].resp.funkos = Some(a.lista)
                             \/ /\ n \in DOMAIN fich[a.pet.usuario[1]]
                                /\ Decodable(a.pet.usuario[1], n)
                                /\ salida'[1].resp.funkos =
                                      Some(Append(a.lista, Guardado(a.pet.usuario[1], n)))]_vars

\* A read of the second of two stored records is answered with that record.
C21_Witness ==
    \E e \in Entradas :
        /\ EsDe(e, "read") /\ e.resp.exito
        /\ e.pet[1].id = Some(MaxId)
        /\ e.resp.funkos[1][1].id = MaxId
        /\ DOMAIN fich[e.pet[1].usuario[1]] = Ids

\* C22: on every connection the requests handed to procesarPeticion so far
\* are the decodable lines of the text received so far, in the order of the
\* line feeds that end them, however the text was cut into chunks.
C22_DespachoEnOrden ==
    historia # None =>
        \A c \in Con :
            LET h == historia[1][c]
            IN  h.desp = [k \in 1..Len(Buenas(h.rec)) |-> JSONparseLinea(Buenas(h.rec)[k]).val]

\* A request that arrived in two chunks was dispatched before one that
\* arrived whole after it.
C22_Witness ==
    /\ historia # None
    /\ \E c \in Con : \E p, q \in PeticionesOrden :
          /\ p # q
          /\ historia[1][c].rec = <<Mitad1(p), Mitad2(p), LF>> \o Linea(q)
          /\ historia[1][c].desp = <<p, q>>
          /\ recibidas = 2

\* C23: the response of a chain is written by the step that ends the chain,
\* whether or not earlier requests of the same connection are unanswered: the
\* responses of a connection are not held back into arrival order.
C23_RespuestaAlTerminar ==
    [][\A t \in Tareas :
           (/\ historia # None
            /\ tareas[t].pc # "libre" /\ tareas'[t].pc = "libre"
            /\ tareas[t].con \in abiertas) =>
               /\ salida' # <<>> /\ salida'[1].pet = Some(tareas[t].pet)
               /\ historia'[1][tareas[t].con].resp =
                     Append(historia[1][tareas[t].con].resp, Some(tareas[t].pet))]_vars

\* Request a was dispatched before request b on the connection, and the
\* response to b was written before the response to a; both load the records.
C23_Witness ==
    /\ historia # None
    /\ \E c \in Con : \E a, b \in PeticionesOrden :
          /\ a.tipo = Some("list") /\ b.tipo = Some("read")
          /\ historia[1][c].desp = <<a, b>>
          /\ historia[1][c].resp = <<Some(b), Some(a)>>

\* The filesystem call a GestorFunko method makes once it has the path.
Siguiente(op) ==
    IF op = "cargar" THEN "readdir" ELSE IF op = "guardar" THEN "open" ELSE "unlink"

\* C24: obtenerDirectorioUsuario changes no file; for a directory that exists
\* it changes nothing and delivers the path; for an absent one it goes on to
\* fs.mkdir, whose completion leaves the directory existing and delivers the
\* path, also when another call created the directory meanwhile.
C24_DirectorioIdempotente ==
    [][\A t \in Tareas :
           LET a == tareas[t]
               b == tareas'[t]
               r == pathJoin(a.pet.usuario).ruta
           IN  (a.pc \in {"access", "mkdir"} /\ b.pc # a.pc) =>
                   /\ fich' = fich
                   /\ IF a.pc = "access"
                      THEN /\ dirs' = dirs
                           /\ b.pc = IF r \in dirs THEN Siguiente(a.op) ELSE "mkdir"
                      ELSE /\ dirs' = dirs \cup {r}
                           /\ b.pc = Siguiente(a.op)]_vars

\* Two calls raced on an absent directory: one created it and wrote a record
\* into it, the fs.mkdir of the other is still to complete.
C24_Witness ==
    \E t \in Tareas :
        /\ tareas[t].pc = "mkdir"
        /\ pathJoin(tareas[t].pet.usuario).ruta \in dirs
        /\ \E n \in DOMAIN fich[tareas[t].pet.usuario[1]] :
              fich[tareas[t].pet.usuario[1]][n].por = "guardar"

\* C25: the client writes one request, when its connection is established,
\* and no other; once its data handler has processed a complete line,
\* whatever the line holds, socket.end() has been called, and it is called
\* for no other reason.
C25_UnaPeticionPorConexion ==
    /\ cliente.escritas <= 1
    /\ cliente.fase \notin {"conectando", "error"} => cliente.escritas = 1
    /\ Len(cliente.vistas) >= 1 => (cliente.fase \in {"fin", "cerrado"} /\ cliente.ends >= 1)
    /\ cliente.ends = Len(cliente.vistas)
    /\ cliente.fase = "fin" => Len(cliente.vistas) >= 1
    /\ indexOfCliente(cliente.buffer, 1) = 0

\* The first line is no JSON, the connection is ended all the same, and the
\* text after the line is kept.
C25_Witness ==
    /\ cliente.vistas = <<"catch">>
    /\ cliente.fase = "fin"
    /\ cliente.escritas = 1
    /\ cliente.buffer # <<>>

\* C26: a connection of the server stops being open only by the step in
\* which its peer ends it or its socket fails.
C26_SoloCierraElPar ==
    [][\A c \in abiertas : c \notin abiertas' => socketCierra(c)]_vars

\* While the process runs, a connection stops being open only by that step.
SoloCierraElParSiVive ==
    [][\A c \in abiertas : (vivo' /\ c \notin abiertas') => socketCierra(c)]_vars

\* C27: whatever call of the chain in slot TareaAtascada never completes, a
\* request whose own filesystem calls complete is answered: its chain ends,
\* and the step that ends a chain writes its response to its connection.
C27_AtascoSoloDeSuCadena ==
    /\ \A t \in Tareas \ {TareaAtascada} :
          (tareas[t].pc # "libre") ~> (tareas[t].pc = "libre")
    /\ [][\A t \in Tareas :
             (tareas[t].pc # "libre" /\ tareas'[t].pc = "libre") =>
                 /\ salida' # <<>>
                 /\ salida'[1].pet = Some(tareas[t].pet)
                 /\ salida'[1].con = tareas[t].con]_vars

\* The chain of an add has truncated its file and waits for the write; a
\* list that arrived later on the same connection has been answered.
C27_Witness ==
    /\ tareas[TareaAtascada].pc = "write"
    /\ salida # <<>>
    /\ EsDe(salida[1], "list")
    /\ salida[1].con = tareas[TareaAtascada].con

\* C28: crearFunko returns no record when valorMercado is a number <= 0, and
\* when it is a number > 0 it returns the record of its ten arguments, with
\* empty texts and negative numero too.
C28_CrearFunko ==
    crear.llamada =>
        LET a == crear.args[1]
        IN  /\ (a.valorMercado # NoNumero /\ a.valorMercado <= 0) => crear.res = None
            /\ (a.valorMercado # NoNumero /\ a.valorMercado > 0) => crear.res = Some(a)

\* A record with an empty name and a negative numero is returned.
C28_Witness ==
    /\ crear.llamada
    /\ crear.res # None
    /\ crear.res[1].nombre = "" /\ crear.res[1].numero < 0
    /\ crear.res[1].valorMercado = 1

\* C29: the step that answers a remove with success deletes exactly the
\* record file of the request's id in the request's user directory, every
\* other record of that user and every record of another user staying as it
\* was; the step that answers a remove with failure, and every earlier step
\* of a remove's chain, changes no record file.
C29_EliminaSoloElFichero ==
    [][\A t \in Tareas :
          (/\ tareas[t].pc # "libre"
           /\ tareas[t].pet.tipo = Some("remove")
           /\ tareas'[t].pc # tareas[t].pc) =>
              LET u == tareas[t].pet.usuario[1]
                  n == tareas[t].pet.id[1]
              IN  IF tareas'[t].pc = "libre" /\ salida' # <<>> /\ salida'[1].resp.exito
                  THEN /\ n \in DOMAIN fich[u]
                       /\ DOMAIN fich'[u] = (DOMAIN fich[u]) \ {n}
                       /\ \A m \in DOMAIN fich'[u] : fich'[u][m] = fich[u][m]
                       /\ \A v \in (DOMAIN fich) \ {u} : fich'[v] = fich[v]
                       /\ DOMAIN fich' = DOMAIN fich
                  ELSE fich' = fich]_vars

\* ana's record 1 has been removed with success while her record 2 and both
\* records of bob are on disk.
C29_Witness ==
    /\ salida # <<>>
    /\ EsDe(salida[1], "remove")
    /\ salida[1].resp.exito
    /\ salida[1].pet[1].usuario = Some("ana")
    /\ salida[1].pet[1].id = Some(1)
    /\ DOMAIN fich["ana"] = {MaxId}
    /\ DOMAIN fich["bob"] = Ids

\* The texts of the chat messages among the complete lines of s, in order.
RECURSIVE TextosDe(_, _)
TextosDe(lineas, k) ==
    IF k > Len(lineas) THEN <<>>
    ELSE LET p == JSONparseLinea(lineas[k])
         IN  (IF p.ok /\ p.val.clase = "objeto" /\ p.val.mensaje # None
                      /\ p.val.mensaje[1].tipo = "string"
              THEN <<p.val.mensaje>> ELSE <<>>)
             \o TextosDe(lineas, k + 1)

\* The lines written to client i among the writes es, in order.
RECURSIVE EscritosA(_, _, _)
EscritosA(es, k, i) ==
    IF k > Len(es) THEN <<>>
    ELSE (IF es[k].a = i THEN <<es[k].linea>> ELSE <<>>) \o EscritosA(es, k + 1, i)

\* C30: the data handler of client c writes each chat message of the lines
\* it completes, once and in order, to every other entry of clientes and
\* never to c or to a socket that is not in clientes, and every line it
\* writes is the message with remitente c and the text received, whatever
\* remitente the sender wrote.
C30_ReenvioALosDemas ==
    [][(chat'.eventos # chat.eventos /\ chat'.evento.tipo = "data") =>
          LET c == chat'.evento.de
              textos == TextosDe(LineasDe(chat.buffer[c] \o chat'.evento.datos), 1)
              es == chat'.escritos
              ids == {chat.clientes[k] : k \in 1..Len(chat.clientes)}
          IN  /\ \A k \in 1..Len(es) : es[k].a \in ids \ {c}
              /\ \A i \in ids \ {c} :
                    EscritosA(es, 1, i) =
                        [j \in 1..Len(textos) |->
                            Linea([clase |-> "objeto", remitente |-> Some(c),
                                   mensaje |-> textos[j]])]]_vars

\* Client 1 sent a message naming another remitente while clients 2 and 3
\* were connected: both got it with remitente 1.
C30_Witness ==
    /\ chat.evento.tipo = "data" /\ chat.evento.de = 1
    /\ chat.clientes = <<1, 2, 3>>
    /\ chat.evento.datos = Linea(ObjetoChat(Some(MaxClientes), Some(Texto("adios"))))
    /\ Len(chat.escritos) = 2
    /\ chat.escritos[1] = [a |-> 2, linea |-> Linea(ObjetoChat(Some(1), Some(Texto("adios"))))]
    /\ chat.escritos[2] = [a |-> 3, linea |-> Linea(ObjetoChat(Some(1), Some(Texto("adios"))))]

\* C31: no two entries of clientes share an id; the first identifier handed
\* out is 1 and each connection gets the identifier one above the last one
\* handed out, so every identifier is above all earlier ones, those of
\* disconnected clients included; no other step moves the counter.
C31_IdsUnicosCrecientes ==
    /\ chat.contadorClientes = 1
    /\ [](/\ \A a, b \in 1..Len(chat.clientes) :
               a < b => chat.clientes[a] < chat.clientes[b]
          /\ \A a \in 1..Len(chat.clientes) : chat.clientes[a] < chat.contadorClientes)
    /\ [][IF chat'.eventos # chat.eventos /\ chat'.evento.tipo = "connection"
          THEN /\ chat'.evento.de = chat.contadorClientes
               /\ chat'.contadorClientes = chat.contadorClientes + 1
               /\ chat'.clientes = Append(chat.clientes, chat'.evento.de)
          ELSE chat'.contadorClientes = chat.contadorClientes]_vars

\* Client 1 has disconnected and the next client to connect got 3, not 1.
C31_Witness ==
    /\ chat.evento.tipo = "connection" /\ chat.evento.de = 3
    /\ chat.clientes = <<2, 3>>
    /\ chat.contadorClientes = 4

\* The sequence s without its entries equal to c, in the same order.
RECURSIVE SinCliente(_, _, _)
SinCliente(s, k, c) ==
    IF k > Len(s) THEN <<>>
    ELSE (IF s[k] = c THEN <<>> ELSE <<s[k]>>) \o SinCliente(s, k + 1, c)

\* C40: the close handler of client c takes exactly c's entry out of
\* clientes, the other entries keeping their order, and a data handler that
\* runs later writes only to sockets that have an entry in clientes, so
\* never to a client that has closed.
C40_CierreQuitaSoloAlCliente ==
    /\ [][(chat'.eventos # chat.eventos /\ chat'.evento.tipo = "close") =>
             /\ chat'.clientes = SinCliente(chat.clientes, 1, chat'.evento.de)
             /\ Len(chat'.clientes) = Len(chat.clientes) - 1]_vars
    /\ [](\A k \in 1..Len(chat.escritos) :
             \E j \in 1..Len(chat.clientes) : chat.clientes[j] = chat.escritos[k].a)

\* Client 2 has closed, and a message client 1 sent afterwards was written
\* to client 3 only.
C40_Witness ==
    /\ chat.clientes = <<1, 3>>
    /\ chat.evento.tipo = "data" /\ chat.evento.de = 1
    /\ Len(chat.escritos) = 1
    /\ chat.escritos[1].a = 3

\* C32: TipoFunko has exactly the four values 'Pop!', 'Pop! Rides',
\* 'Vynil Soda' and 'Vynil Gold', GeneroFunko exactly the six values
\* 'Animación', 'Películas y TV', 'Videojuegos', 'Deportes', 'Música' and
\* 'Ánime', all pairwise distinct, and a record's tipo and genero are among
\* them.
C32_ValoresDeLosEnum ==
    /\ Cardinality(TipoFunko) = 4
    /\ \A v \in {"Pop!", "Pop! Rides", "Vynil Soda", "Vynil Gold"} : v \in TipoFunko
    /\ Cardinality(GeneroFunko) = 6
    /\ \A v \in {"Animación", "Películas y TV", "Videojuegos", "Deportes", "Música",
                 "Ánime"} : v \in GeneroFunko
    /\ crear.args # None =>
          /\ crear.args[1].tipo \in {"Pop!", "Pop! Rides", "Vynil Soda", "Vynil Gold"}
          /\ crear.args[1].genero \in {"Animación", "Películas y TV", "Videojuegos",
                                       "Deportes", "Música", "Ánime"}

\* A record of the last tipo and the last genero has been created.
C32_Witness ==
    /\ crear.llamada
    /\ crear.res # None
    /\ crear.res[1].tipo = "Vynil Gold"
    /\ crear.res[1].genero = "Ánime"

\* The number of lines the data handler has cut off connection c's buffer,
\* and the number of responses written to c.
Extraidas(c) == Len(LineasDe(historia[1][c].rec)) - Len(LineasDe(buffer[c]))
Respondidas(c) == Len(historia[1][c].resp)

\* C33: the responses written to a connection are never more than the lines
\* extracted from its buffer, and when every filesystem call completes each
\* extracted line gets its response: once k lines are extracted, k responses
\* are eventually written.
C33_UnaRespuestaPorLinea ==
    /\ [](\A c \in Con : Respondidas(c) <= Extraidas(c))
    /\ \A c \in Con : \A k \in 1..(2 * MaxRespuesta) :
          (Extraidas(c) >= k) ~> (Respondidas(c) >= k)

\* While the process lives the same holds: lines extracted are answered,
\* each once.
UnaRespuestaSiVive ==
    /\ [](\A c \in Con : Respondidas(c) <= Extraidas(c))
    /\ <>[](~vivo \/ \A c \in Con : Respondidas(c) = Extraidas(c))

\* C34: an id removed with success and not added since has no readable
\* record file in the user's directory, in every later state.
C34_BorradoSigueAusente ==
    \A u \in Usuarios : \A i \in borrados[u] :
        ~(i \in DOMAIN fich[u] /\ JSONparse(fich[u][i].txt).ok)

\* C35: where no request creates or deletes a record file, a list answered
\* with success delivers a record for every record file of the user, in its
\* old or its new version, also while a save of that record is under way.
C35_ViejoONuevo ==
    \A e \in Entradas :
        (EsDe(e, "list") /\ e.resp.exito /\ e.resp.funkos # None) =>
            \A i \in DOMAIN fich[e.pet[1].usuario[1]] :
                \E j \in 1..Len(e.resp.funkos[1]) :
                    /\ e.resp.funkos[1][j].id = i
                    /\ e.resp.funkos[1][j].valorMercado \in {ValorInicial, ValorInicial + 1}

\* C36: no step of the chain of a request naming user A creates, changes or
\* deletes a record file in the directory of another user.
C36_UsuariosAislados ==
    [][\A t \in Tareas :
          (tareas[t].pc # "libre" /\ tareas'[t].pc # tareas[t].pc) =>
              \A v \in (DOMAIN fich) \ {tareas[t].pet.usuario[1]} :
                  fich'[v] = fich[v]]_vars

\* C37: what the framing of a connection has extracted is a function of the
\* text received so far, whatever the chunks it came in: the requests
\* dispatched are the decodable lines of the text in order, the responses
\* written follow its lines one by one, and the buffer is the text after its
\* last line feed.
C37_SoloLaConcatenacion ==
    \A c \in Con :
        LET s == historia[1][c].rec
            lineas == LineasDe(s)
        IN  /\ buffer[c] = RestoDe(s)
            /\ Len(historia[1][c].desp) = Len(Buenas(s))
            /\ \A k \in 1..Len(Buenas(s)) :
                  historia[1][c].desp[k] = JSONparseLinea(Buenas(s)[k]).val
            /\ Len(historia[1][c].resp) = Len(lineas)
            /\ \A k \in 1..Len(lineas) :
                  historia[1][c].resp[k] =
                      IF JSONparseLinea(lineas[k]).ok
                      THEN Some(JSONparseLinea(lineas[k]).val) ELSE None

\* The two connections have received the same text, one in one chunk and
\* the other cut before its line feed, and its request was dispatched on
\* both.
C37_Witness ==
    /\ recibidas = MaxCortes
    /\ historia[1][1].rec = historia[1][2].rec
    /\ Len(historia[1][1].desp) >= 1
    /\ historia[1][1].desp = historia[1][2].desp
    /\ buffer[1] = buffer[2]

\* C38: no step of the chain of a list or read request creates, changes or
\* deletes a record file of any user, and the only directory such a step
\* can create is the one of the request's user.
C38_ListYReadSoloLeen ==
    [][\A t \in Tareas :
          (/\ tareas[t].pc # "libre"
           /\ tareas[t].pet.tipo \in {Some("list"), Some("read")}
           /\ tareas'[t].pc # tareas[t].pc) =>
              /\ fich' = fich
              /\ dirs' \subseteq dirs \cup {tareas[t].pet.usuario[1]}]_vars

\* A read of ana has been answered after creating her directory, and the
\* records of bob are all on disk.
C38_Witness ==
    /\ salida # <<>>
    /\ EsDe(salida[1], "read")
    /\ salida[1].pet[1].usuario = Some("ana")
    /\ ~salida[1].resp.exito
    /\ "ana" \in dirs
    /\ DOMAIN fich["ana"] = {}
    /\ DOMAIN fich[OtroUsuario] = Ids

\* C39: the data event that dispatches a request whose tipo is none of add,
\* update, remove, list and read writes that request's response with
\* exito = false, starts no chain of storage calls, keeps the server
\* running, and leaves the directories and files as they are.
C39_TipoDesconocido ==
    [][\A k \in 1..Len(despachado') :
           (/\ ~despachado'[k].nulo
            /\ despachado'[k].tipo \notin
                  {Some("add"), Some("update"), Some("remove"), Some("list"), Some("read")}) =>
               /\ \E e \in {salida'[j] : j \in 1..Len(salida')} :
                     /\ e.pet = Some(despachado'[k])
                     /\ ~e.resp.exito
               /\ \A t \in Tareas : tareas[t].pc = "libre" => tareas'[t].pc = "libre"
               /\ vivo'
               /\ dirs' = dirs
               /\ fich' = fich]_vars

\* A request of tipo "otra" that names no user was answered with failure
\* while the chain of a list was in flight.
C39_Witness ==
    /\ despachado # <<>>
    /\ despachado[1].tipo = Some("otra") /\ despachado[1].usuario = None
    /\ salida # <<>> /\ ~salida[1].resp.exito
    /\ salida[1].pet = Some(despachado[1])
    /\ \E t \in Tareas : tareas[t].pc # "libre"
    /\ vivo

====
